---------------------------- MODULE Spec2Model ----------------------------
(***************************************************************************)
(* A model of efts-io: the EFTS naming conventions, the dimension splicer  *)
(* and reducer kept in _internals.py, the variable-definition dispatch of  *)
(* variables.py, the validation predicates of conventions.py and the      *)
(* dataset builder and the EftsDataSet wrapper of wrapper.py.              *)
(*                                                                         *)
(* Every operation is a call: an action picks the arguments from bounded   *)
(* sets, records them in `call` and records in `ret` what the code returns *)
(* or raises for them.  The methods of EftsDataSet act on the object kept  *)
(* in `self`, and the file system is kept in `files` and `opened`.         *)
(***************************************************************************)
EXTENDS Integers, Sequences, FiniteSets, TLC

VARIABLES
    pc,     \* "idle" before the call, "done" after it; with an EftsDataSet, "ready"
            \* for a method call and "returned" after it
    call,   \* the operation called and its arguments, named as in the source
    ret,    \* what the call returned, or the error it raised
    self,   \* the EftsDataSet object the methods act on, NoObject before its construction
    files,  \* the file system: the content stored at each path that exists
    opened  \* the paths that have been opened for reading

vars == <<pc, call, ret, self, files, opened>>

----------------------------------------------------------------------------
(* Bounds of the model *)

\* largest value of an element of the vector d given to splice_named_var
MaxVal == 2
\* longest list of requested axis names given to splice_named_var
MaxNcdims == 4
\* highest rank of an array given to reduce_dimensions, and longest target list
MaxRank == 3
\* largest size of an axis of such an array
MaxDimSize == 2
\* most variable definitions given to create_efts_variables
MaxVars == 3
\* longest dimension (time, station, lead time, ensemble) of a data set
MaxLen == 2

----------------------------------------------------------------------------
(* Sequences *)

Range(s) == {s[i] : i \in 1..Len(s)}

SeqsUpTo(S, n) == UNION {[1..k -> S] : k \in 0..n}

IsInjective(s) == \A i, j \in 1..Len(s) : s[i] = s[j] => i = j

\* R's match(x, table) for one value: the first position of x in table, 0 (NA) when absent
MatchOne(x, table) ==
    IF x \in Range(table)
    THEN CHOOSE i \in 1..Len(table) :
            table[i] = x /\ \A j \in 1..(i - 1) : table[j] # x
    ELSE 0

\* R's setdiff(a, b): the distinct elements of a that are not in b, in the order of a
SetDiff(a, b) ==
    LET keep(i) == a[i] \notin Range(b) /\ \A j \in 1..(i - 1) : a[j] # a[i]
        F[i \in 0..Len(a)] ==
            IF i = 0 THEN <<>>
            ELSE IF keep(i) THEN Append(F[i - 1], a[i]) ELSE F[i - 1]
    IN F[Len(a)]

----------------------------------------------------------------------------
(* conventions.py: names *)

TIME_DIMNAME == "time"
STATION_DIMNAME == "station"
ENS_MEMBER_DIMNAME == "ens_member"
LEAD_TIME_DIMNAME == "lead_time"
STR_LEN_DIMNAME == "strLen"

STATION_ID_VARNAME == "station_id"
STATION_NAME_VARNAME == "station_name"
LAT_VARNAME == "lat"
LON_VARNAME == "lon"
AREA_VARNAME == "area"

TITLE_ATTR_KEY == "title"
INSTITUTION_ATTR_KEY == "institution"
SOURCE_ATTR_KEY == "source"
CATCHMENT_ATTR_KEY == "catchment"
STF_CONVENTION_VERSION_ATTR_KEY == "STF_convention_version"
STF_NC_SPEC_ATTR_KEY == "STF_nc_spec"
COMMENT_ATTR_KEY == "comment"
HISTORY_ATTR_KEY == "history"

STF_2_0_URL == "https://github.com/csiro-hydroinformatics/efts/blob/d7d43a995fb5e459bcb894e09b7bb89de03e285c/docs/netcdf_for_water_forecasting.md"

mandatory_global_attributes ==
    <<TITLE_ATTR_KEY, INSTITUTION_ATTR_KEY, SOURCE_ATTR_KEY, CATCHMENT_ATTR_KEY,
      STF_CONVENTION_VERSION_ATTR_KEY, STF_NC_SPEC_ATTR_KEY, COMMENT_ATTR_KEY,
      HISTORY_ATTR_KEY>>

\* the dimensions with the string length in snake case
mandatory_netcdf_dimensions_snake ==
    <<TIME_DIMNAME, STATION_DIMNAME, LEAD_TIME_DIMNAME, "str_len", ENS_MEMBER_DIMNAME>>

mandatory_netcdf_dimensions ==
    <<TIME_DIMNAME, STATION_DIMNAME, LEAD_TIME_DIMNAME, STR_LEN_DIMNAME, ENS_MEMBER_DIMNAME>>

mandatory_xarray_dimensions ==
    <<TIME_DIMNAME, STATION_DIMNAME, LEAD_TIME_DIMNAME, ENS_MEMBER_DIMNAME>>

mandatory_varnames ==
    <<TIME_DIMNAME, STATION_DIMNAME, LEAD_TIME_DIMNAME, STATION_ID_VARNAME,
      STATION_NAME_VARNAME, ENS_MEMBER_DIMNAME, LAT_VARNAME, LON_VARNAME>>

get_default_dim_order_swapped ==
    <<STATION_DIMNAME, LEAD_TIME_DIMNAME, ENS_MEMBER_DIMNAME, TIME_DIMNAME>>

get_default_dim_order ==
    <<LEAD_TIME_DIMNAME, STATION_DIMNAME, ENS_MEMBER_DIMNAME, TIME_DIMNAME>>

----------------------------------------------------------------------------
(* Outcomes of a call *)

\* a raised error: its class, its message text, and the names the message lists
Raise(class, message, listed) ==
    [status |-> "error", class |-> class, message |-> message, listed |-> listed]

Return(value) == [status |-> "ok", value |-> value]

----------------------------------------------------------------------------
(* _internals.py: splice_named_var *)

\* an R named integer vector
NamedVector(names, values) == [names |-> names, values |-> values]

\* R's d[ncdims] on a named vector: the elements whose names are ncdims, in that order
IndexByName(v, ncdims) ==
    [i \in 1..Len(ncdims) |-> v.values[MatchOne(ncdims[i], v.names)]]

splice_named_var_unchecked(d, ncdims) ==
    IF Len(d) # 4
    THEN Raise("stopifnot", "length(d) == 4 is not TRUE", <<>>)
    ELSE LET named == NamedVector(get_default_dim_order, d)
         IN  IF Len(ncdims) > 0
             THEN Return(NamedVector(ncdims,
                     [i \in 1..Len(ncdims) |->
                        IF ncdims[i] \in Range(named.names)
                        THEN named.values[MatchOne(ncdims[i], named.names)]
                        ELSE 0]))
             ELSE Return(named)

splice_named_var(d, ncdims) ==
    LET default_order == get_default_dim_order
    IN  IF Len(d) # 4
        THEN Raise("stopifnot", "length(d) == 4 is not TRUE", <<>>)
        ELSE LET named == NamedVector(default_order, d)
             IN  IF Len(ncdims) > 0
                 THEN IF ~ (\A i \in 1..Len(ncdims) : ncdims[i] \in Range(default_order))
                      THEN Raise("stop", "Invalid dimensions for a data variable: ", ncdims)
                      ELSE Return(NamedVector(ncdims, IndexByName(named, ncdims)))
                 ELSE Return(named)

\* the axis names a caller may request: the four canonical ones and one that is not
SpliceNames == Range(get_default_dim_order) \cup {STR_LEN_DIMNAME}

\* vectors of 3, 4 and 5 elements
SpliceVectors == UNION {[1..k -> 1..MaxVal] : k \in {3, 4, 5}}

SpliceCall ==
    /\ pc = "idle"
    /\ \E d \in SpliceVectors, ncdims \in SeqsUpTo(SpliceNames, MaxNcdims) :
          /\ call' = [op |-> "splice_named_var", d |-> d, ncdims |-> ncdims]
          /\ ret' = splice_named_var(d, ncdims)
    /\ pc' = "done"
    /\ UNCHANGED <<self, files, opened>>

\* no EftsDataSet object
NoObject == [exists |-> FALSE]

\* a file system without any file
NoFiles == [path \in {} |-> path]

Init ==
    /\ pc = "idle"
    /\ call = [op |-> "none"]
    /\ ret = [status |-> "none"]
    /\ self = NoObject
    /\ files = NoFiles
    /\ opened = {}

NextSplice == SpliceCall

SpecSplice == Init /\ [][NextSplice]_vars

----------------------------------------------------------------------------
(* Claims about splice_named_var *)

IsSplice == pc = "done" /\ call.op = "splice_named_var"

\* the position of an axis name in (lead_time, station, ens_member, time)
CanonicalPosition(name) ==
    CASE name = "lead_time" -> 1
      [] name = "station" -> 2
      [] name = "ens_member" -> 3
      [] name = "time" -> 4
      [] OTHER -> 0

\* a non-empty ordered subset of the four canonical names
IsOrderedSubset(s) ==
    /\ Len(s) > 0
    /\ IsInjective(s)
    /\ \A i \in 1..Len(s) : CanonicalPosition(s[i]) > 0

(* C1: for a 4-element vector d and a non-empty ordered subset S of the four
   canonical names, splice_named_var returns a named vector whose names are S,
   in order, and whose i-th value is d at the canonical position of S[i]; with
   no subset, it returns the four values named (lead_time, station,
   ens_member, time). *)
C1_SpliceSelects ==
    (IsSplice /\ Len(call.d) = 4) =>
        /\ IsOrderedSubset(call.ncdims) =>
              /\ ret.status = "ok"
              /\ ret.value.names = call.ncdims
              /\ Len(ret.value.values) = Len(call.ncdims)
              /\ \A i \in 1..Len(call.ncdims) :
                    ret.value.values[i] = call.d[CanonicalPosition(call.ncdims[i])]
        /\ call.ncdims = <<>> =>
              /\ ret.status = "ok"
              /\ ret.value.names = <<"lead_time", "station", "ens_member", "time">>
              /\ ret.value.values = call.d

\* a call that reorders all four axes and picks distinct values apart
C1_Witness ==
    /\ IsSplice
    /\ call.ncdims = <<"time", "station", "lead_time", "ens_member">>
    /\ call.d = <<1, 2, 1, 2>>
    /\ ret.status = "ok"
    /\ ret.value.values = <<2, 2, 1, 1>>

\* the requested names that are not canonical, in the order requested
Offending(ncdims) == SelectSeq(ncdims, LAMBDA n : CanonicalPosition(n) = 0)

\* the call fails for a vector that has not exactly 4 elements, and fails with the
\* invalid-dimension error when a requested name is not canonical
SpliceRejects ==
    /\ (IsSplice /\ Len(call.d) # 4) => ret.status = "error"
    /\ (IsSplice /\ Len(call.d) = 4 /\ Offending(call.ncdims) # <<>>) =>
          /\ ret.status = "error"
          /\ ret.class = "stop"
          /\ ret.message = "Invalid dimensions for a data variable: "

(* C2, as claimed: splice_named_var fails when d has not exactly 4 elements, and
   fails with the invalid-dimension error when a requested name is not
   canonical; the error names the offending entries, that is the requested
   names that are not canonical. *)
C2_Original_ErrorNamesOffending ==
    /\ SpliceRejects
    /\ (IsSplice /\ Len(call.d) = 4 /\ Offending(call.ncdims) # <<>>) =>
          ret.listed = Offending(call.ncdims)

(* C2, amended: splice_named_var fails when d has not exactly 4 elements, and
   fails with the invalid-dimension error when a requested name is not
   canonical; the error lists every requested name, in the order requested,
   the offending entries among them. *)
C2_ErrorListsRequested ==
    /\ SpliceRejects
    /\ (IsSplice /\ Len(call.d) = 4 /\ Offending(call.ncdims) # <<>>) =>
          /\ ret.listed = call.ncdims
          /\ Range(Offending(call.ncdims)) \subseteq Range(ret.listed)

\* a rejected request that mixes a canonical name with one that is not
C2_Witness ==
    /\ IsSplice
    /\ Len(call.d) = 4
    /\ call.ncdims = <<"station", "strLen">>
    /\ ret.status = "error"
    /\ ret.listed = <<"station", "strLen">>

----------------------------------------------------------------------------
(* _internals.py: R arrays.  An array is its dim attribute, its values in
   column-major order (the first index runs fastest) and its dim_names
   attribute, which may be NULL. *)

NullNames == [null |-> TRUE, names |-> <<>>]
Names(names) == [null |-> FALSE, names |-> names]

RArray(dim, data, dim_names) == [dim |-> dim, data |-> data, dim_names |-> dim_names]

\* the product of the first k sizes of dim
ProdUpTo(dim, k) ==
    LET P[i \in 0..Len(dim)] == IF i = 0 THEN 1 ELSE P[i - 1] * dim[i]
    IN  P[k]

Prod(dim) == ProdUpTo(dim, Len(dim))

\* the position in the column-major values of the cell at index tuple idx
Offset(idx, dim) ==
    LET S[k \in 0..Len(dim)] ==
            IF k = 0 THEN 0 ELSE S[k - 1] + (idx[k] - 1) * ProdUpTo(dim, k - 1)
    IN  1 + S[Len(dim)]

\* the index tuple of the cell at position n of the column-major values
Unravel(n, dim) ==
    [k \in 1..Len(dim) |-> (((n - 1) \div ProdUpTo(dim, k - 1)) % dim[k]) + 1]

IsPermutation(perm, n) == Len(perm) = n /\ Range(perm) = 1..n

\* R's aperm(a, perm): axis k of the result is axis perm[k] of a
\* the axes permuted, the values left where they were
aperm_reshape(a, perm) ==
    IF ~ IsPermutation(perm, Len(a.dim))
    THEN Raise("aperm", "value for 'perm' is invalid", <<>>)
    ELSE Return(RArray([k \in 1..Len(perm) |-> a.dim[perm[k]]], a.data, NullNames))

aperm(a, perm) ==
    IF ~ IsPermutation(perm, Len(a.dim))
    THEN Raise("aperm", "value for 'perm' is invalid", <<>>)
    ELSE LET rd == [k \in 1..Len(perm) |-> a.dim[perm[k]]]
             cell(n) ==
                LET ridx == Unravel(n, rd)
                    idx == [j \in 1..Len(a.dim) |-> ridx[MatchOne(j, perm)]]
                IN  a.data[Offset(idx, a.dim)]
         IN  Return(RArray(rd, [n \in 1..Prod(rd) |-> cell(n)], NullNames))

\* R's drop(a): the axes of size 1 are removed, the values keep their order
drop(a) == RArray(SelectSeq(a.dim, LAMBDA n : n > 1), a.data, NullNames)

\* R's array(y, dim): the values of y, recycled to the product of dim
array(y, dim) ==
    IF Len(dim) = 0
    THEN Raise("array", "'dims' cannot be of length 0", <<>>)
    ELSE Return(RArray(dim,
                       [n \in 1..Prod(dim) |-> y.data[((n - 1) % Len(y.data)) + 1]],
                       NullNames))

\* R's 1:n, which counts down to 0 when n is 0
OneTo(n) == IF n = 0 THEN <<1, 0>> ELSE [i \in 1..n |-> i]

\* R's v[index] for a vector of positions: a position of 0 selects nothing
IndexByPosition(v, index) ==
    LET positive == SelectSeq(index, LAMBDA i : i > 0)
    IN  [k \in 1..Len(positive) |-> v[positive[k]]]

\* R's v[mask] for a logical mask
IndexByMask(v, mask) ==
    LET F[i \in 0..Len(v)] ==
            IF i = 0 THEN <<>>
            ELSE IF mask[i] THEN Append(F[i - 1], v[i]) ELSE F[i - 1]
    IN  F[Len(v)]

\* "dim_names<-" without the two tests
set_dim_names_unchecked(x, value) == Return([x EXCEPT !.dim_names = Names(value)])

\* "dim_names<-"(x, value), for an array x
set_dim_names(x, value) ==
    LET d == x.dim
    IN  IF Len(d) # Len(value)
        THEN Raise("stop", "dim names is not equal to the number of dimensions of the array", <<>>)
        ELSE IF Cardinality(Range(value)) # Len(d)
        THEN Raise("stop", "specified dim names are not unique", <<>>)
        ELSE Return([x EXCEPT !.dim_names = Names(value)])

----------------------------------------------------------------------------
(* _internals.py: reduce_dimensions *)

\* the argument subset_dim_names: not supplied, the scalar NA, or a vector of names
Missing == [kind |-> "missing", names |-> <<>>]
ScalarNA == [kind |-> "NA", names |-> <<>>]
Given(names) == [kind |-> "names", names |-> names]

\* missing(subset_dim_names) || is.na(subset_dim_names): || looks at the first
\* element of is.na(...) only, and is NA when there is none
UseDefaultTarget(subset_dim_names) ==
    CASE subset_dim_names.kind = "missing" -> "TRUE"
      [] subset_dim_names.kind = "NA" -> "TRUE"
      [] subset_dim_names.names = <<>> -> "NA"
      [] OTHER -> "FALSE"

\* dn[dimsize_input > 1]
DefaultTarget(dn, dimsize_input) ==
    IndexByMask(dn, [i \in 1..Len(dimsize_input) |-> dimsize_input[i] > 1])

\* any(dimsize_input[dropped_dims] > 1)
DropsNonDegenerate_never(dn, dimsize_input, dropped_dims) == FALSE

DropsNonDegenerate(dn, dimsize_input, dropped_dims) ==
    \E i \in 1..Len(dropped_dims) : dimsize_input[MatchOne(dropped_dims[i], dn)] > 1

\* the body of reduce_dimensions once the target is settled
ReduceTo(x, dn, subset_dim_names) ==
    LET dimsize_input == x.dim
        diffdim == SetDiff(subset_dim_names, dn)
        dropped_dims == SetDiff(dn, subset_dim_names)
        w == [i \in 1..Len(subset_dim_names) |-> MatchOne(subset_dim_names[i], dn)]
        other == [i \in 1..Len(dropped_dims) |-> MatchOne(dropped_dims[i], dn)]
        perm == w \o other
        x_reordered == aperm(x, perm)
    IN  IF Len(diffdim) > 0
        THEN Raise("stop", "Dimension names to slice but not found in array dim names: ", diffdim)
        ELSE IF DropsNonDegenerate(dn, dimsize_input, dropped_dims)
        THEN Raise("stop", "Cannot drop non-degenerate when subsetting", <<>>)
        ELSE IF x_reordered.status = "error"
        THEN x_reordered
        ELSE LET reordered_dim_names == IndexByPosition(dn, perm)
                 reordered_dim_sizes == x_reordered.value.dim
                 new_dim_sizes == IndexByPosition(reordered_dim_sizes, OneTo(Len(w)))
                 new_dim_names == IndexByPosition(reordered_dim_names, OneTo(Len(w)))
                 y == array(drop(x_reordered.value), new_dim_sizes)
             IN  IF y.status = "error" THEN y
                 ELSE set_dim_names(y.value, new_dim_names)

reduce_dimensions(x, subset_dim_names) ==
    LET dimsize_input == x.dim
        dn == x.dim_names
        default == UseDefaultTarget(subset_dim_names)
    IN  IF dn.null
        THEN Raise("stop", "the input array must have a valid dim_names attribute", <<>>)
        ELSE IF Len(dn.names) # Len(dimsize_input)
        THEN Raise("stop", "the input array and its dim_names attribute are differing in length", <<>>)
        ELSE IF default = "NA"
        THEN Raise("if", "missing value where TRUE/FALSE needed", <<>>)
        ELSE ReduceTo(x, dn.names,
                      IF default = "TRUE"
                      THEN DefaultTarget(dn.names, dimsize_input)
                      ELSE subset_dim_names.names)

\* the arrays given: every shape up to the bounds, each cell holding its own
\* position, named by the leading canonical names, by one name too few, or unnamed
ReduceShapes == UNION {[1..k -> 1..MaxDimSize] : k \in 1..MaxRank}

ReduceNames == Range(get_default_dim_order) \cup {STR_LEN_DIMNAME}

ReduceDimNames(rank) ==
    { NullNames,
      Names(SubSeq(get_default_dim_order \o <<STR_LEN_DIMNAME>>, 1, rank)),
      Names(SubSeq(get_default_dim_order \o <<STR_LEN_DIMNAME>>, 1, rank - 1)) }

ReduceTargets ==
    {Missing, ScalarNA} \cup {Given(t) : t \in SeqsUpTo(ReduceNames, MaxRank)}

ReduceCall ==
    /\ pc = "idle"
    /\ \E dim \in ReduceShapes :
       \E dim_names \in ReduceDimNames(Len(dim)), subset_dim_names \in ReduceTargets :
          LET x == RArray(dim, [n \in 1..Prod(dim) |-> n], dim_names)
          IN  /\ call' = [op |-> "reduce_dimensions", x |-> x,
                          subset_dim_names |-> subset_dim_names]
              /\ ret' = reduce_dimensions(x, subset_dim_names)
    /\ pc' = "done"
    /\ UNCHANGED <<self, files, opened>>

\* names given to the setter: of any length, with repeats
NamesSet == SeqsUpTo({TIME_DIMNAME, STATION_DIMNAME, STR_LEN_DIMNAME}, MaxRank)

SetDimNamesCall ==
    /\ pc = "idle"
    /\ \E dim \in ReduceShapes, value \in NamesSet :
          LET x == RArray(dim, [n \in 1..Prod(dim) |-> n], NullNames)
          IN  /\ call' = [op |-> "set_dim_names", x |-> x, value |-> value]
              /\ ret' = set_dim_names(x, value)
    /\ pc' = "done"
    /\ UNCHANGED <<self, files, opened>>

NextReduce ==
    \/ ReduceCall
    \/ SetDimNamesCall

SpecReduce == Init /\ [][NextReduce]_vars

----------------------------------------------------------------------------
(* Claims about reduce_dimensions *)

IsReduce == pc = "done" /\ call.op = "reduce_dimensions"

\* the array given carries one distinct name per axis
WellNamed(x) ==
    /\ ~ x.dim_names.null
    /\ Len(x.dim_names.names) = Len(x.dim)
    /\ IsInjective(x.dim_names.names)

\* the axis of x that is called name
AxisOf(x, name) ==
    CHOOSE i \in 1..Len(x.dim) : x.dim_names.names[i] = name

\* a target axis list for x: distinct names of axes of x, at least one, such that
\* every other axis of x has size 1
IsTargetFor(target, x) ==
    /\ Len(target) > 0
    /\ IsInjective(target)
    /\ Range(target) \subseteq Range(x.dim_names.names)
    /\ \A i \in 1..Len(x.dim) :
          x.dim_names.names[i] \notin Range(target) => x.dim[i] = 1

\* y re-expanded to the axes of x: the cell of x at idx is read from y at the
\* indices of the target axes, the axes of size 1 being reinserted
ReExpanded(y, target, x) ==
    [n \in 1..Prod(x.dim) |->
        LET idx == Unravel(n, x.dim)
            yidx == [i \in 1..Len(target) |-> idx[AxisOf(x, target[i])]]
        IN  y.data[Offset(yidx, y.dim)]]

(* C3: for a named array x and a target axis list whose names all occur in x
   and whose complement holds only axes of size 1, reduce_dimensions returns an
   array whose shape is the sizes of the target axes in target order (a target
   axis of size 1 is kept), whose axis names are the target list, and which,
   re-expanded to the axes of x, has the values of x. *)
C3_ReduceShapeAndRoundTrip ==
    (/\ IsReduce
     /\ WellNamed(call.x)
     /\ call.subset_dim_names.kind = "names"
     /\ IsTargetFor(call.subset_dim_names.names, call.x)) =>
        LET target == call.subset_dim_names.names
        IN  /\ ret.status = "ok"
            /\ ret.value.dim = [i \in 1..Len(target) |-> call.x.dim[AxisOf(call.x, target[i])]]
            /\ ret.value.dim_names = Names(target)
            /\ Len(ret.value.data) = Len(call.x.data)
            /\ ReExpanded(ret.value, target, call.x) = call.x.data

\* a reduction that drops an axis of size 1, keeps a requested axis of size 1 and
\* moves the axes
C3_Witness ==
    /\ IsReduce
    /\ call.x.dim = <<2, 1, 1>>
    /\ call.subset_dim_names = Given(<<"station", "lead_time">>)
    /\ ret.status = "ok"
    /\ ret.value.dim = <<1, 2>>
    /\ ret.value.dim_names.names = <<"station", "lead_time">>

(* C4: reduce_dimensions fails when the array has no axis names, fails when a
   requested name is not an axis name of the array, the error listing the
   unmatched names, and fails when an axis that is not requested has size
   greater than 1; no array is returned in these cases. *)
C4_ReduceFails ==
    /\ (IsReduce /\ call.x.dim_names.null) => ret.status = "error"
    /\ (/\ IsReduce
        /\ call.subset_dim_names.kind = "names"
        /\ ~ (Range(call.subset_dim_names.names) \subseteq Range(call.x.dim_names.names))) =>
          /\ ret.status = "error"
          /\ WellNamed(call.x) =>
                /\ ret.message = "Dimension names to slice but not found in array dim names: "
                /\ Range(ret.listed) =
                      Range(call.subset_dim_names.names) \ Range(call.x.dim_names.names)
    /\ (/\ IsReduce
        /\ WellNamed(call.x)
        /\ call.subset_dim_names.kind = "names"
        /\ \E i \in 1..Len(call.x.dim) :
              /\ call.x.dim_names.names[i] \notin Range(call.subset_dim_names.names)
              /\ call.x.dim[i] > 1) =>
          ret.status = "error"

\* a request that would drop an axis of size 2, all its names being axes of the array
C4_Witness ==
    /\ IsReduce
    /\ call.x.dim = <<2, 2>>
    /\ WellNamed(call.x)
    /\ call.subset_dim_names = Given(<<"station">>)
    /\ ret.status = "error"
    /\ ret.message = "Cannot drop non-degenerate when subsetting"

\* the names (resp. sizes) of the axes of x of size greater than 1, in the order of x
NonDegenerateNames(x) ==
    IndexByMask(x.dim_names.names, [i \in 1..Len(x.dim) |-> x.dim[i] > 1])

NonDegenerateSizes(x) == SelectSeq(x.dim, LAMBDA n : n > 1)

(* C5: without a target list, reduce_dimensions takes as target the axes of the
   array whose size is greater than 1, in their order, so that the result has
   those axes and no axis of size 1; this for every shape, the array whose axes
   all have size 1 included. *)
C5_DefaultTargetDropsDegenerate ==
    (IsReduce /\ WellNamed(call.x) /\ call.subset_dim_names.kind = "missing") =>
        /\ ret.status = "ok"
        /\ ret.value.dim_names = Names(NonDegenerateNames(call.x))
        /\ ret.value.dim = NonDegenerateSizes(call.x)
        /\ \A i \in 1..Len(ret.value.dim) : ret.value.dim[i] > 1

----------------------------------------------------------------------------
(* Python values *)

\* None, or a value that is not None
PyNone == [is_none |-> TRUE, value |-> <<>>]
Some(value) == [is_none |-> FALSE, value |-> value]

EmptyDict == [k \in {} |-> k]

\* the dict d after d.update(other)
Updated(d, other) ==
    [k \in (DOMAIN d) \cup (DOMAIN other) |-> IF k \in DOMAIN other THEN other[k] ELSE d[k]]

\* the last element of the sequence s whose name is n
LastNamed(s, n) ==
    s[CHOOSE i \in 1..Len(s) : s[i].name = n /\ \A j \in (i + 1)..Len(s) : s[j].name # n]

----------------------------------------------------------------------------
(* dimensions.py: _create_nc_dims.  A dimension is the tuple (name, values,
   attributes); the model keeps the name and the values, and leaves out the
   values of the string-length dimension, which nothing here reads. *)

Dim(name, values) == <<name, values>>

_create_nc_dims(time_dim_info, num_stations, lead_length, ensemble_length) ==
    [time_dim      |-> Dim(TIME_DIMNAME, time_dim_info.values),
     lead_time_dim |-> Dim(LEAD_TIME_DIMNAME, [i \in 1..lead_length |-> i]),
     station_dim   |-> Dim(STATION_DIMNAME, [i \in 1..num_stations |-> i]),
     str_dim       |-> Dim(STR_LEN_DIMNAME, <<>>),
     ensemble_dim  |-> Dim(ENS_MEMBER_DIMNAME, [i \in 1..ensemble_length |-> i])]

----------------------------------------------------------------------------
(* _internals.py: create_data_variable.  An xr.Variable is its axis names and
   its shape; np.empty leaves its values unset. *)

Variable(dims, shape) == [dims |-> dims, shape |-> shape]

\* a variable of the mandatory template, of which the model keeps the axis names
MetadataVariable(dims) == [dims |-> dims]

create_data_variable_reversed(data_var_def, dimensions) ==
    LET n == Len(dimensions)
    IN  Variable([i \in 1..n |-> dimensions[n + 1 - i][1]],
                 [i \in 1..n |-> Len(dimensions[n + 1 - i][2])])

create_data_variable(data_var_def, dimensions) ==
    LET dimnames == [i \in 1..Len(dimensions) |-> dimensions[i][1]]
        shape == [i \in 1..Len(dimensions) |-> Len(dimensions[i][2])]
    IN  Variable(dimnames, shape)

----------------------------------------------------------------------------
(* variables.py *)

\* the keys of the dict create_mandatory_vardefs returns, with the axes of each
create_mandatory_vardefs(station_dim, str_dim, ensemble_dim, lead_time_dim) ==
    [station_ids_var   |-> MetadataVariable(<<STATION_DIMNAME>>),
     station_names_var |-> MetadataVariable(<<str_dim[1], STATION_DIMNAME>>),
     ensemble_var      |-> MetadataVariable(<<ENS_MEMBER_DIMNAME>>),
     lead_time_var     |-> MetadataVariable(<<LEAD_TIME_DIMNAME>>),
     latitude_var      |-> MetadataVariable(<<STATION_DIMNAME>>),
     longitude_var     |-> MetadataVariable(<<STATION_DIMNAME>>)]

\* the names of default_optional_variable_definitions_v2_0, one row each
default_optional_variable_definitions_v2_0 == <<"x", "y", "area", "elevation">>

\* create_optional_vardefs: a pandas Series, one definition per row, keyed by row number
create_optional_vardefs(station_dim, vars_def) ==
    [row \in 0..(Len(vars_def) - 1) |-> [name |-> vars_def[row + 1], dim |-> station_dim]]

\* variables_metadata = variables_metadata.update(optional_var_ncdefs): dict.update
\* changes the dict in place and returns None, which is what is assigned
UpdateResult(variables_metadata, optional_var_ncdefs) == PyNone

\* [x for x in data_var_def.values() if x["dim_type"] not in ["2", "3", "4"]]
unknown_dims(data_var_def) ==
    SelectSeq(data_var_def, LAMBDA x : x.dim_type \notin {"2", "3", "4"})

\* [x for x in data_var_def.values() if x["dim_type"] == "4"]
ens_fcast_data_var_def(data_var_def) ==
    SelectSeq(data_var_def, LAMBDA x : x.dim_type = "4")

ens_data_var_def_not2(data_var_def) ==
    SelectSeq(data_var_def, LAMBDA x : x.dim_type # "2")

\* [x for x in data_var_def.values() if x["dim_type"] == "3"]
ens_data_var_def(data_var_def) ==
    SelectSeq(data_var_def, LAMBDA x : x.dim_type = "3")

\* [x for x in data_var_def.values() if x["dim_type"] == "2"]
point_data_var_def(data_var_def) ==
    SelectSeq(data_var_def, LAMBDA x : x.dim_type = "2")

\* {x["name"]: create_data_variable(x, dimensions) for x in defs}: a later
\* definition of a name replaces an earlier one
DataVariables(defs, dimensions) ==
    [n \in {defs[i].name : i \in 1..Len(defs)} |->
        create_data_variable(LastNamed(defs, n), dimensions)]

create_efts_variables(data_var_def, time_dim_info, num_stations, lead_length, ensemble_length, optional_vars) ==
    LET efts_dims == _create_nc_dims(time_dim_info, num_stations, lead_length, ensemble_length)
        time_dim == efts_dims.time_dim
        lead_time_dim == efts_dims.lead_time_dim
        station_dim == efts_dims.station_dim
        str_dim == efts_dims.str_dim
        ensemble_dim == efts_dims.ensemble_dim
        mandatory_var_ncdefs ==
            create_mandatory_vardefs(station_dim, str_dim, ensemble_dim, lead_time_dim)
        variables_metadata ==
            IF ~ optional_vars.is_none
            THEN UpdateResult(mandatory_var_ncdefs,
                              create_optional_vardefs(station_dim, optional_vars.value))
            ELSE Some(mandatory_var_ncdefs)
        partitions == [ens_fcast |-> ens_fcast_data_var_def(data_var_def),
                       ens       |-> ens_data_var_def(data_var_def),
                       point     |-> point_data_var_def(data_var_def)]
        data_variables ==
            Updated(Updated(DataVariables(partitions.ens_fcast,
                                          <<lead_time_dim, station_dim, ensemble_dim, time_dim>>),
                            DataVariables(partitions.ens,
                                          <<station_dim, ensemble_dim, time_dim>>)),
                    DataVariables(partitions.point, <<station_dim, time_dim>>))
    IN  IF Len(unknown_dims(data_var_def)) > 0
        \* "Invalid dimension specifications for " + len(unknown_dims) + ...: a str
        \* and an int do not add, so the message is never built
        THEN Raise("TypeError", "can only concatenate str (not \"int\") to str", <<>>)
        \* the three lists are kept beside the returned dict, for the claims about them
        ELSE Return([metadatavars |-> variables_metadata, datavars |-> data_variables])
             @@ [partitions |-> partitions]

\* the names and the dimensionality codes a definition may carry
VarNames == {"rain_sim", "rain_obs"}
DimTypes == {"2", "3", "4", "5"}

\* data_var_def: a dict of definitions, in insertion order; each definition is a
\* dict of its own, told apart from the others by the key it is stored under
DataVarDefs ==
    UNION { {[i \in 1..k |-> [key |-> i, name |-> f[i][1], dim_type |-> f[i][2]]] :
                f \in [1..k -> VarNames \X DimTypes]} : k \in 0..MaxVars }

CreateVariablesCall ==
    /\ pc = "idle"
    /\ \E data_var_def \in DataVarDefs,
          n_time \in 1..MaxLen, num_stations \in 1..MaxLen,
          lead_length \in 1..MaxLen, ensemble_length \in 1..MaxLen,
          optional_vars \in {PyNone, Some(default_optional_variable_definitions_v2_0)} :
          LET time_dim_info == [units |-> "days since", values |-> [i \in 1..n_time |-> i]]
          IN  /\ call' = [op |-> "create_efts_variables",
                          data_var_def |-> data_var_def,
                          time_dim_info |-> time_dim_info,
                          num_stations |-> num_stations,
                          lead_length |-> lead_length,
                          ensemble_length |-> ensemble_length,
                          optional_vars |-> optional_vars]
              /\ ret' = create_efts_variables(data_var_def, time_dim_info, num_stations,
                                              lead_length, ensemble_length, optional_vars)
    /\ pc' = "done"
    /\ UNCHANGED <<self, files, opened>>

NextVariables == CreateVariablesCall

SpecVariables == Init /\ [][NextVariables]_vars

----------------------------------------------------------------------------
(* Claims about create_efts_variables *)

IsCreateVariables == pc = "done" /\ call.op = "create_efts_variables"

AllCodesValid(data_var_def) ==
    \A i \in 1..Len(data_var_def) : data_var_def[i].dim_type \in {"2", "3", "4"}

\* how many times x occurs in the sequence s
Occurrences(x, s) == Cardinality({i \in 1..Len(s) : s[i] = x})

(* C6: when every dimensionality code is "2", "3" or "4", each definition is
   in exactly one of the three partitions, the one of its code, and the sizes
   of the three partitions add up to the number of definitions. *)
C6_PartitionByCode ==
    (IsCreateVariables /\ AllCodesValid(call.data_var_def)) =>
        /\ ret.status = "ok"
        /\ \A i \in 1..Len(call.data_var_def) :
              LET x == call.data_var_def[i]
              IN  /\ Occurrences(x, ret.partitions.ens_fcast) = (IF x.dim_type = "4" THEN 1 ELSE 0)
                  /\ Occurrences(x, ret.partitions.ens) = (IF x.dim_type = "3" THEN 1 ELSE 0)
                  /\ Occurrences(x, ret.partitions.point) = (IF x.dim_type = "2" THEN 1 ELSE 0)
        /\ Len(ret.partitions.ens_fcast) + Len(ret.partitions.ens) + Len(ret.partitions.point)
              = Len(call.data_var_def)

\* three definitions, one of each code, given in the order "2", "4", "3"
C6_Witness ==
    /\ IsCreateVariables
    /\ Len(call.data_var_def) = 3
    /\ call.data_var_def[1].dim_type = "2"
    /\ call.data_var_def[2].dim_type = "4"
    /\ call.data_var_def[3].dim_type = "3"
    /\ ret.status = "ok"
    /\ ret.partitions.ens_fcast = <<call.data_var_def[2]>>
    /\ ret.partitions.ens = <<call.data_var_def[3]>>
    /\ ret.partitions.point = <<call.data_var_def[1]>>

\* the definitions whose code is none of "2", "3", "4"
InvalidCount(data_var_def) ==
    Cardinality({i \in 1..Len(data_var_def) : data_var_def[i].dim_type \notin {"2", "3", "4"}})

(* C7: when a definition has a code other than "2", "3", "4", the call is
   rejected with a value error (invalid dimension specification) that reports
   how many definitions are invalid, and no data variable is returned. *)
C7_InvalidCodeRejectedWithCount ==
    (IsCreateVariables /\ ~ AllCodesValid(call.data_var_def)) =>
        /\ ret.status = "error"
        /\ ret.class = "ValueError"
        /\ ret.listed = <<InvalidCount(call.data_var_def)>>

\* the ordered axes of a data variable of the given code
AxesOfCode(code) ==
    CASE code = "4" -> <<"lead_time", "station", "ens_member", "time">>
      [] code = "3" -> <<"station", "ens_member", "time">>
      [] code = "2" -> <<"station", "time">>

\* the length of a dimension of the call
LengthOfAxis(axis) ==
    CASE axis = "lead_time" -> call.lead_length
      [] axis = "station" -> call.num_stations
      [] axis = "ens_member" -> call.ensemble_length
      [] axis = "time" -> Len(call.time_dim_info.values)

HasAxesOfCode(variable, code) ==
    /\ variable.dims = AxesOfCode(code)
    /\ variable.shape = [i \in 1..Len(AxesOfCode(code)) |-> LengthOfAxis(AxesOfCode(code)[i])]

(* C8: every data variable of 'datavars' has the ordered axes of its code,
   (lead_time, station, ens_member, time) for "4", (station, ens_member, time)
   for "3", (station, time) for "2", each axis as long as its dimension; and
   'datavars' has exactly one entry per distinct definition name. *)
C8_DataVariableAxes ==
    (IsCreateVariables /\ ret.status = "ok") =>
        LET defs == call.data_var_def
            datavars == ret.value.datavars
        IN  /\ DOMAIN datavars = {defs[i].name : i \in 1..Len(defs)}
            /\ \A n \in DOMAIN datavars :
                  \E i \in 1..Len(defs) :
                     defs[i].name = n /\ HasAxesOfCode(datavars[n], defs[i].dim_type)
            /\ \A i \in 1..Len(defs) :
                  (\A j \in 1..Len(defs) : defs[j].name = defs[i].name => j = i) =>
                     HasAxesOfCode(datavars[defs[i].name], defs[i].dim_type)

\* a 4-D and a 2-D variable over dimensions of different lengths
C8_Witness ==
    /\ IsCreateVariables
    /\ ret.status = "ok"
    /\ call.lead_length = 1 /\ call.num_stations = 2
    /\ call.ensemble_length = 1 /\ Len(call.time_dim_info.values) = 2
    /\ Len(call.data_var_def) = 2
    /\ call.data_var_def[1] = [key |-> 1, name |-> "rain_sim", dim_type |-> "4"]
    /\ call.data_var_def[2] = [key |-> 2, name |-> "rain_obs", dim_type |-> "2"]
    /\ ret.value.datavars["rain_sim"].shape = <<1, 2, 1, 2>>
    /\ ret.value.datavars["rain_obs"].dims = <<"station", "time">>

\* the keys of the six variables of the mandatory template
MandatoryTemplate ==
    {"station_ids_var", "station_names_var", "ensemble_var", "lead_time_var",
     "latitude_var", "longitude_var"}

(* C9: the 'metadatavars' of every successful call is a mapping that holds the
   six variables of the mandatory template, with optional_vars None and with
   optional definitions supplied, which are added to the six. *)
C9_MandatoryMetadataVariables ==
    (IsCreateVariables /\ ret.status = "ok") =>
        /\ ~ ret.value.metadatavars.is_none
        /\ MandatoryTemplate \subseteq DOMAIN ret.value.metadatavars.value
        /\ ~ call.optional_vars.is_none =>
              Cardinality(DOMAIN ret.value.metadatavars.value)
                 = Cardinality(MandatoryTemplate) + Len(call.optional_vars.value)

----------------------------------------------------------------------------
(* xarray: a Dataset is its variables (coordinates and data variables alike,
   each with its axis names and its values), the names of its coordinates, the
   sizes of its dimensions and its global attributes. *)

\* a variable along one dimension
Variable1D(dim, values) == [dims |-> <<dim>>, shape |-> <<Len(values)>>, values |-> values]

\* xr.Dataset(data_vars, coords, attrs): fails when two variables disagree on the
\* size of a dimension
Dataset(data_vars, coords, attrs) ==
    LET variables == Updated(data_vars, coords)
        dimnames == UNION {Range(variables[v].dims) : v \in DOMAIN variables}
        sizes(dim) ==
            UNION {{variables[v].shape[i] :
                        i \in {j \in 1..Len(variables[v].dims) : variables[v].dims[j] = dim}} :
                   v \in DOMAIN variables}
    IN  IF \E dim \in dimnames : Cardinality(sizes(dim)) > 1
        THEN Raise("ValueError", "conflicting sizes for dimension", <<>>)
        ELSE Return([variables |-> variables,
                     coords |-> DOMAIN coords,
                     dims |-> [dim \in dimnames |-> CHOOSE n \in sizes(dim) : TRUE],
                     attrs |-> attrs])

\* np.arange(start, stop, step=1)
arange(start, stop) ==
    [i \in 1..(IF stop > start THEN stop - start ELSE 0) |-> start + i - 1]

----------------------------------------------------------------------------
(* conventions.py: the validation predicates *)

\* every mandatory dimension is there, others allowed
_has_required_dimensions_superset(d, mandatory_dimensions) ==
    Range(mandatory_dimensions) \subseteq DOMAIN d.dims

_has_required_dimensions(d, mandatory_dimensions) ==
    DOMAIN d.dims = Range(mandatory_dimensions)

has_required_stf2_dimensions(d) == _has_required_dimensions(d, mandatory_netcdf_dimensions)

has_required_xarray_dimensions(d) == _has_required_dimensions(d, mandatory_xarray_dimensions)

\* the tested names are the reference names and no other
_has_all_members_exact(tested, reference) == tested = Range(reference)

_has_all_members(tested, reference) ==
    LET r == Range(reference)
    IN  (tested \cap r) = r

has_required_global_attributes(d) ==
    _has_all_members(DOMAIN d.attrs, mandatory_global_attributes)

has_required_variables(d) ==
    _has_all_members(DOMAIN d.variables, mandatory_varnames)

----------------------------------------------------------------------------
(* wrapper.py: xr_efts *)

\* np.full(shape, nan) for a length
nan_full(shape) == [i \in 1..shape |-> "nan"]

\* the five attributes of the first convention, without version, specification and history
stf2_mandatory_global_attributes_v1(title, institution, catchment, source, comment, history) ==
    [k \in {TITLE_ATTR_KEY, INSTITUTION_ATTR_KEY, CATCHMENT_ATTR_KEY, SOURCE_ATTR_KEY,
            COMMENT_ATTR_KEY} |->
        CASE k = TITLE_ATTR_KEY -> title
          [] k = INSTITUTION_ATTR_KEY -> institution
          [] k = CATCHMENT_ATTR_KEY -> catchment
          [] k = SOURCE_ATTR_KEY -> source
          [] k = COMMENT_ATTR_KEY -> comment]

\* the eight attributes, with the version of the first convention
stf2_mandatory_global_attributes_first(title, institution, catchment, source, comment, history) ==
    [k \in Range(mandatory_global_attributes) |->
        CASE k = TITLE_ATTR_KEY -> title
          [] k = INSTITUTION_ATTR_KEY -> institution
          [] k = CATCHMENT_ATTR_KEY -> catchment
          [] k = SOURCE_ATTR_KEY -> source
          [] k = COMMENT_ATTR_KEY -> comment
          [] k = HISTORY_ATTR_KEY -> history
          [] k = STF_CONVENTION_VERSION_ATTR_KEY -> "1.0"
          [] k = STF_NC_SPEC_ATTR_KEY -> STF_2_0_URL]

stf2_mandatory_global_attributes(title, institution, catchment, source, comment, history) ==
    [k \in {TITLE_ATTR_KEY, INSTITUTION_ATTR_KEY, CATCHMENT_ATTR_KEY, SOURCE_ATTR_KEY,
            COMMENT_ATTR_KEY, HISTORY_ATTR_KEY, STF_CONVENTION_VERSION_ATTR_KEY,
            STF_NC_SPEC_ATTR_KEY} |->
        CASE k = TITLE_ATTR_KEY -> title
          [] k = INSTITUTION_ATTR_KEY -> institution
          [] k = CATCHMENT_ATTR_KEY -> catchment
          [] k = SOURCE_ATTR_KEY -> source
          [] k = COMMENT_ATTR_KEY -> comment
          [] k = HISTORY_ATTR_KEY -> history
          [] k = STF_CONVENTION_VERSION_ATTR_KEY -> "2.0"
          [] k = STF_NC_SPEC_ATTR_KEY -> STF_2_0_URL]

\* x if x is not None, else the default
OrElse(x, default) == IF x.is_none THEN default ELSE x.value

xr_efts(issue_times, station_ids, lead_times, ensemble_size, station_names, latitudes, longitudes, areas, nc_attributes) ==
    LET lead_times_ == OrElse(lead_times, <<0>>)
        n_stations == Len(station_ids)
        coords ==
            [k \in {TIME_DIMNAME, STATION_DIMNAME, ENS_MEMBER_DIMNAME, LEAD_TIME_DIMNAME,
                    STATION_ID_VARNAME} |->
                CASE k = TIME_DIMNAME -> Variable1D(TIME_DIMNAME, issue_times)
                  [] k = STATION_DIMNAME ->
                        Variable1D(STATION_DIMNAME, arange(1, Len(station_ids) + 1))
                  [] k = ENS_MEMBER_DIMNAME ->
                        Variable1D(ENS_MEMBER_DIMNAME, arange(1, ensemble_size + 1))
                  [] k = LEAD_TIME_DIMNAME -> Variable1D(LEAD_TIME_DIMNAME, lead_times_)
                  [] k = STATION_ID_VARNAME -> Variable1D(STATION_DIMNAME, station_ids)]
        data_vars ==
            [k \in {STATION_NAME_VARNAME, LAT_VARNAME, LON_VARNAME, AREA_VARNAME} |->
                CASE k = STATION_NAME_VARNAME ->
                        Variable1D(STATION_DIMNAME, OrElse(station_names, station_ids))
                  [] k = LAT_VARNAME ->
                        Variable1D(STATION_DIMNAME, OrElse(latitudes, nan_full(n_stations)))
                  [] k = LON_VARNAME ->
                        Variable1D(STATION_DIMNAME, OrElse(longitudes, nan_full(n_stations)))
                  [] k = AREA_VARNAME ->
                        Variable1D(STATION_DIMNAME, OrElse(areas, nan_full(n_stations)))]
        \* nc_attributes or stf2_mandatory_global_attributes(): None and the empty
        \* dict both give way to the default
        attrs ==
            IF nc_attributes.is_none \/ DOMAIN nc_attributes.value = {}
            THEN stf2_mandatory_global_attributes("not provided", "not provided",
                    "not provided", "not provided", "not provided", "not provided")
            ELSE nc_attributes.value
    IN  Dataset(data_vars, coords, attrs)

\* the station identifiers, and the attribute dicts, a caller may give
StationIds == {"a", "b"}

AttributeDicts ==
    { EmptyDict,
      [k \in {TITLE_ATTR_KEY} |-> "t"],
      [k \in Range(mandatory_global_attributes) |-> "t"],
      [k \in Range(mandatory_global_attributes) \cup {"project"} |-> "t"] }

Optional(S) == {PyNone} \cup {Some(v) : v \in S}

XrEftsCall ==
    /\ pc = "idle"
    /\ \E n_time \in 0..MaxLen, station_ids \in SeqsUpTo(StationIds, MaxLen),
          lead_times \in Optional({[i \in 1..n |-> i] : n \in 0..MaxLen}),
          ensemble_size \in 0..MaxLen,
          station_names \in Optional({[i \in 1..n |-> "name"] : n \in 0..MaxLen}),
          nc_attributes \in Optional(AttributeDicts) :
       \E latitudes \in Optional({[i \in 1..Len(station_ids) |-> 0]}),
          longitudes \in Optional({[i \in 1..Len(station_ids) |-> 0]}),
          areas \in Optional({[i \in 1..Len(station_ids) |-> 0]}) :
          LET issue_times == [i \in 1..n_time |-> i]
          IN  /\ call' = [op |-> "xr_efts", issue_times |-> issue_times,
                          station_ids |-> station_ids, lead_times |-> lead_times,
                          ensemble_size |-> ensemble_size, station_names |-> station_names,
                          latitudes |-> latitudes, longitudes |-> longitudes,
                          areas |-> areas, nc_attributes |-> nc_attributes]
              /\ ret' = xr_efts(issue_times, station_ids, lead_times, ensemble_size,
                                station_names, latitudes, longitudes, areas, nc_attributes)
    /\ pc' = "done"
    /\ UNCHANGED <<self, files, opened>>

\* texts given for an attribute: the default, another, the empty one
AttributeTexts == {"not provided", "t", ""}

Stf2AttributesCall ==
    /\ pc = "idle"
    /\ \E title \in AttributeTexts, institution \in AttributeTexts, catchment \in AttributeTexts,
          source \in AttributeTexts, comment \in AttributeTexts, history \in AttributeTexts :
          /\ call' = [op |-> "stf2_mandatory_global_attributes", title |-> title,
                      institution |-> institution, catchment |-> catchment,
                      source |-> source, comment |-> comment, history |-> history]
          /\ ret' = Return(stf2_mandatory_global_attributes(title, institution, catchment,
                                                            source, comment, history))
    /\ pc' = "done"
    /\ UNCHANGED <<self, files, opened>>

NextXrEfts ==
    \/ XrEftsCall
    \/ Stf2AttributesCall

SpecXrEfts == Init /\ [][NextXrEfts]_vars

----------------------------------------------------------------------------
(* Claims about xr_efts *)

IsXrEfts == pc = "done" /\ call.op = "xr_efts"

\* the optional station arrays are not given, or are as long as station_ids
StationArraysFit ==
    call.station_names.is_none \/ Len(call.station_names.value) = Len(call.station_ids)

(* C10: for issue times of length T, station identifiers of length S, lead
   times of length L and ensemble size E, nc_attributes not being supplied,
   the data set built by xr_efts has exactly the dimensions time: T,
   station: S, lead_time: L, ens_member: E, and passes
   has_required_xarray_dimensions, has_required_global_attributes and
   has_required_variables. *)
C10_XrEftsEndToEnd ==
    (IsXrEfts /\ call.nc_attributes.is_none /\ StationArraysFit) =>
        /\ ret.status = "ok"
        /\ ret.value.dims =
              [time       |-> Len(call.issue_times),
               station    |-> Len(call.station_ids),
               lead_time  |-> IF call.lead_times.is_none THEN 1
                              ELSE Len(call.lead_times.value),
               ens_member |-> call.ensemble_size]
        /\ has_required_xarray_dimensions(ret.value)
        /\ has_required_global_attributes(ret.value)
        /\ has_required_variables(ret.value)

\* a data set of four dimensions of different lengths, built with every default
C10_Witness ==
    /\ IsXrEfts
    /\ call.nc_attributes.is_none /\ call.station_names.is_none
    /\ call.latitudes.is_none /\ call.longitudes.is_none /\ call.areas.is_none
    /\ Len(call.issue_times) = 2
    /\ call.station_ids = <<"a", "b">>
    /\ call.lead_times = Some(<<1>>)
    /\ call.ensemble_size = 2
    /\ ret.status = "ok"
    /\ ret.value.dims = [time |-> 2, station |-> 2, lead_time |-> 1, ens_member |-> 2]
    /\ DOMAIN ret.value.attrs = Range(mandatory_global_attributes)

----------------------------------------------------------------------------
(* conventions.py: the validation predicates applied to data sets that carry
   any subset of the mandatory names and names that are not mandatory *)

\* a data set as xr_efts builds it, the smallest with every dimension
BaseDataset ==
    xr_efts(<<1>>, <<"a">>, PyNone, 1, PyNone, PyNone, PyNone, PyNone, PyNone).value

\* names a data set may carry beside the mandatory ones
ExtraAttribute == "project"
ExtraDimension == "bnds"
SnakeStrLen == "str_len"

AttributeNames == Range(mandatory_global_attributes) \cup {ExtraAttribute}

VariableNames == Range(mandatory_varnames) \cup {AREA_VARNAME}

DimensionNames == Range(mandatory_netcdf_dimensions) \cup {SnakeStrLen, ExtraDimension}

WithAttrs(d, keys) == [d EXCEPT !.attrs = [k \in keys |-> "t"]]

WithVariables(d, names) ==
    [d EXCEPT !.variables = [n \in names |->
        IF n \in DOMAIN d.variables THEN d.variables[n]
        ELSE Variable1D(STATION_DIMNAME, <<0>>)]]

WithDims(d, names) == [d EXCEPT !.dims = [n \in names |-> 1]]

GlobalAttributesCall ==
    /\ pc = "idle"
    /\ \E keys \in SUBSET AttributeNames :
          LET d == WithAttrs(BaseDataset, keys)
          IN  /\ call' = [op |-> "has_required_global_attributes", d |-> d]
              /\ ret' = Return(has_required_global_attributes(d))
    /\ pc' = "done"
    /\ UNCHANGED <<self, files, opened>>

VariablesCall ==
    /\ pc = "idle"
    /\ \E names \in SUBSET VariableNames :
          LET d == WithVariables(BaseDataset, names)
          IN  /\ call' = [op |-> "has_required_variables", d |-> d]
              /\ ret' = Return(has_required_variables(d))
    /\ pc' = "done"
    /\ UNCHANGED <<self, files, opened>>

XarrayDimensionsCall ==
    /\ pc = "idle"
    /\ \E names \in SUBSET DimensionNames :
          LET d == WithDims(BaseDataset, names)
          IN  /\ call' = [op |-> "has_required_xarray_dimensions", d |-> d]
              /\ ret' = Return(has_required_xarray_dimensions(d))
    /\ pc' = "done"
    /\ UNCHANGED <<self, files, opened>>

Stf2DimensionsCall ==
    /\ pc = "idle"
    /\ \E names \in SUBSET DimensionNames :
          LET d == WithDims(BaseDataset, names)
          IN  /\ call' = [op |-> "has_required_stf2_dimensions", d |-> d]
              /\ ret' = Return(has_required_stf2_dimensions(d))
    /\ pc' = "done"
    /\ UNCHANGED <<self, files, opened>>

NextValidate ==
    \/ GlobalAttributesCall
    \/ VariablesCall
    \/ XarrayDimensionsCall
    \/ Stf2DimensionsCall

SpecValidate == Init /\ [][NextValidate]_vars

----------------------------------------------------------------------------
(* Claims about the validation predicates *)

IsCall(op) == pc = "done" /\ call.op = op

EightAttributes ==
    {"title", "institution", "source", "catchment", "STF_convention_version",
     "STF_nc_spec", "comment", "history"}

EightVariables ==
    {"time", "station", "lead_time", "station_id", "station_name", "ens_member",
     "lat", "lon"}

(* C11: has_required_global_attributes is true exactly when each of the eight
   mandatory global attributes is present, and has_required_variables is true
   exactly when each of the eight mandatory variable names is present: extra
   names never make either false, one missing mandatory name always does. *)
C11_SupersetPredicates ==
    /\ IsCall("has_required_global_attributes") =>
          (ret.value <=> EightAttributes \subseteq DOMAIN call.d.attrs)
    /\ IsCall("has_required_variables") =>
          (ret.value <=> EightVariables \subseteq DOMAIN call.d.variables)

\* every mandatory attribute and one more: accepted
C11_Witness ==
    /\ IsCall("has_required_global_attributes")
    /\ DOMAIN call.d.attrs = EightAttributes \cup {ExtraAttribute}
    /\ ret.value = TRUE

(* C12: has_required_xarray_dimensions is true exactly when the set of
   dimension names of the data set is {time, station, lead_time, ens_member}:
   a missing dimension and an additional dimension both reject. *)
C12_DimensionSetMatch ==
    IsCall("has_required_xarray_dimensions") =>
        (ret.value <=> DOMAIN call.d.dims = {"time", "station", "lead_time", "ens_member"})

\* the four dimensions and one more: rejected
C12_Witness ==
    /\ IsCall("has_required_xarray_dimensions")
    /\ DOMAIN call.d.dims = {"time", "station", "lead_time", "ens_member", ExtraDimension}
    /\ ret.value = FALSE

(* C13, as stated: has_required_stf2_dimensions accepts a data set exactly
   when its dimension set is {time, station, lead_time, str_len, ens_member}. *)
C13_Original_StrLenSnakeCase ==
    IsCall("has_required_stf2_dimensions") =>
        (ret.value <=>
            DOMAIN call.d.dims = {"time", "station", "lead_time", "str_len", "ens_member"})

(* C13: has_required_stf2_dimensions accepts a data set exactly when its
   dimension set is {time, station, lead_time, strLen, ens_member}: the
   string-length dimension is identified by the name strLen. *)
C13_Stf2DimensionSet ==
    IsCall("has_required_stf2_dimensions") =>
        (ret.value <=>
            DOMAIN call.d.dims = {"time", "station", "lead_time", "strLen", "ens_member"})

\* the five dimensions of the file format, the string length named strLen
C13_Witness ==
    /\ IsCall("has_required_stf2_dimensions")
    /\ DOMAIN call.d.dims = {"time", "station", "lead_time", "strLen", "ens_member"}
    /\ ret.value = TRUE

----------------------------------------------------------------------------
(* numpy and xarray arrays of several dimensions.  Python indexes start at 0:
   the cell of index <<i, j>> is the (i+1)-th along the first axis.  The
   value kept in a cell is its own index, so that two cells never agree. *)

\* the indexes of the cells of an array of the given shape
Indexes(shape) ==
    {idx \in [1..Len(shape) -> 0..MaxLen] : \A k \in 1..Len(shape) : idx[k] < shape[k]}

DataArray(dims, shape) ==
    [dims |-> dims, shape |-> shape, values |-> [idx \in Indexes(shape) |-> idx]]

\* d[name] = da, for an array da that fits the sizes of d
WithDataArray(d, name, da) ==
    [d EXCEPT !.variables = Updated(d.variables, [n \in {name} |-> da])]

\* the parts of a key of positional indexing: an integer, or the slice :stop
At(i) == [kind |-> "int", i |-> i]
UpTo(stop) == [kind |-> "slice", stop |-> stop]

Min(a, b) == IF a < b THEN a ELSE b

\* x[key] for a key of integers and slices, one per axis
GetItem(x, key) ==
    IF x.is_none
    THEN Raise("TypeError", "'NoneType' object is not subscriptable", <<>>)
    ELSE
    LET a == x.value
        rank == Len(a.dims)
        kept == {k \in 1..Len(key) : key[k].kind = "slice"}
        \* the axis of a that becomes the n-th axis of the result
        axis(n) == CHOOSE k \in kept : Cardinality({j \in kept : j <= k}) = n
        position(k) == Cardinality({j \in kept : j <= k})
        dims == [n \in 1..Cardinality(kept) |-> a.dims[axis(n)]]
        shape == [n \in 1..Cardinality(kept) |-> Min(key[axis(n)].stop, a.shape[axis(n)])]
    IN  IF Len(key) # rank
        THEN Raise("IndexError", "too many indices for array", <<>>)
        ELSE IF \E k \in 1..rank : key[k].kind = "int" /\ key[k].i >= a.shape[k]
        THEN Raise("IndexError", "index out of bounds", <<>>)
        ELSE Return([dims |-> dims, shape |-> shape,
                     values |-> [idx \in Indexes(shape) |->
                        a.values[[k \in 1..rank |->
                            IF key[k].kind = "int" THEN key[k].i ELSE idx[position(k)]]]]])

\* the elements of a set of numbers in increasing order
RECURSIVE Sorted(_)
Sorted(S) ==
    IF S = {} THEN <<>>
    ELSE LET least == CHOOSE x \in S : \A y \in S : x <= y
         IN  <<least>> \o Sorted(S \ {least})

\* np.where(condition)[0]: the indexes at which the condition is true
where(condition) == Sorted({i - 1 : i \in {j \in 1..Len(condition) : condition[j]}})

\* values == x, element by element
ElementwiseEq(values, x) == [i \in 1..Len(values) |-> values[i] = x]

----------------------------------------------------------------------------
(* wrapper.py: _first_where and the class EftsDataSet *)

\* the last index at which the condition is true
_first_where_last(condition) ==
    LET x == where(condition)
    IN  IF Len(x) < 1
        THEN Raise("ValueError", "first_where: Invalid condition, no element is true", <<>>)
        ELSE Return(x[Len(x)])

_first_where(condition) ==
    LET x == where(condition)
    IN  IF Len(x) < 1
        THEN Raise("ValueError", "first_where: Invalid condition, no element is true", <<>>)
        ELSE Return(x[1])

X_VARNAME == "x"
Y_VARNAME == "y"
ELEVATION_VARNAME == "elevation"

conventional_varnames ==
    <<STATION_DIMNAME, LEAD_TIME_DIMNAME, TIME_DIMNAME, ENS_MEMBER_DIMNAME, STR_LEN_DIMNAME,
      STATION_ID_VARNAME, STATION_NAME_VARNAME, LAT_VARNAME, LON_VARNAME, X_VARNAME,
      Y_VARNAME, AREA_VARNAME, ELEVATION_VARNAME>>

\* check_index_found: raises when the index is None
check_index_found(index_id, identifier, dimension_id) ==
    IF index_id.is_none
    THEN Raise("ValueError", "identifier not found in the dimension", <<identifier, dimension_id>>)
    ELSE Return(PyNone)

\* the fields __init__ sets before it looks at data
NewEftsDataSet(data) ==
    [exists |-> TRUE,
     time_dim |-> PyNone,
     time_zone |-> "UTC",
     time_zone_timestamps |-> TRUE,
     STATION_DIMNAME |-> STATION_DIMNAME,
     stations_varname |-> STATION_ID_VARNAME,
     LEAD_TIME_DIMNAME |-> LEAD_TIME_DIMNAME,
     ENS_MEMBER_DIMNAME |-> ENS_MEMBER_DIMNAME,
     identifiers_dimensions |-> <<>>,
     data |-> data]

get_stations_varname(obj) == STATION_ID_VARNAME

get_time_dim(obj) == obj.data.variables[TIME_DIMNAME].values

get_ensemble_size(obj) == obj.data.dims[obj.ENS_MEMBER_DIMNAME]

get_lead_time_count(obj) == obj.data.dims[obj.LEAD_TIME_DIMNAME]

\* self.data[variable_name] for one name: KeyError when there is no such variable
DataGetItem(obj, variable_name) ==
    IF variable_name \in DOMAIN obj.data.variables
    THEN Return(obj.data.variables[variable_name])
    ELSE Raise("KeyError", "No variable named", <<variable_name>>)

\* _get_values without the test of the name
_get_values_unrestricted(obj, variable_name) ==
    LET v == DataGetItem(obj, variable_name)
    IN  IF v.status = "error" THEN v ELSE Return(v.value.values)

_get_values(obj, variable_name) ==
    IF variable_name \notin Range(conventional_varnames)
    THEN Raise("ValueError", " cannot be directly retrieved. Must be in ", <<variable_name>>)
    ELSE LET v == DataGetItem(obj, variable_name)
         IN  IF v.status = "error" THEN v ELSE Return(v.value.values)

index_for_identifier(obj, identifier, dimension_id) ==
    LET dimension_id_ == OrElse(dimension_id, get_stations_varname(obj))
        identValues == _get_values(obj, dimension_id_)
    IN  IF identValues.status = "error" THEN identValues
        ELSE IF identifier.is_none
        THEN Raise("Exception", "Identifier cannot be NA", <<>>)
        ELSE _first_where(ElementwiseEq(identValues.value, identifier.value))

index_for_time(obj, dateTime) ==
    _first_where(ElementwiseEq(obj.data.variables[TIME_DIMNAME].values, dateTime))

\* self.data.get(variable_name): None when there is no such variable
DataGet(obj, variable_name) ==
    IF variable_name \in DOMAIN obj.data.variables
    THEN Some(obj.data.variables[variable_name])
    ELSE PyNone

get_ensemble_forecasts(obj, variable_name, identifier, dimension_id, start_time, lead_time_count) ==
    LET dimension_id_ == OrElse(dimension_id, get_stations_varname(obj))
        td == get_time_dim(obj)
    IN  IF start_time.is_none /\ Len(td) = 0
        THEN Raise("IndexError", "index 0 is out of bounds for axis 0 with size 0", <<>>)
        ELSE
        LET start_time_ == OrElse(start_time, td[1])
            n_ens == get_ensemble_size(obj)
            index_id == index_for_identifier(obj, identifier, Some(dimension_id_))
        IN  IF index_id.status = "error" THEN index_id
            ELSE
            LET found == check_index_found(Some(index_id.value), identifier.value, dimension_id_)
                lead_time_count_ == OrElse(lead_time_count, get_lead_time_count(obj))
                indx_time == index_for_time(obj, start_time_)
            IN  IF found.status = "error" THEN found
                ELSE IF indx_time.status = "error" THEN indx_time
                ELSE GetItem(DataGet(obj, variable_name),
                             <<At(indx_time.value), UpTo(n_ens), At(index_id.value),
                               UpTo(lead_time_count_)>>)

\* the ten accessors that are not implemented: nothing but the raise
NotImplemented(obj) == [ret |-> Raise("NotImplementedError", "", <<>>), self |-> obj]

get_ensemble_for_stations(obj, variable_name, identifier, dimension_id, start_time, lead_time_count) ==
    NotImplemented(obj)

get_ensemble_forecasts_for_station(obj, variable_name, identifier, dimension_id) ==
    NotImplemented(obj)

get_ensemble_series(obj, variable_name, identifier, dimension_id) == NotImplemented(obj)

put_ensemble_forecasts(obj, x, variable_name, identifier, dimension_id, start_time) ==
    NotImplemented(obj)

put_ensemble_forecasts_for_station(obj, x, variable_name, identifier, dimension_id, start_time) ==
    NotImplemented(obj)

put_ensemble_series(obj, x, variable_name, identifier, dimension_id) == NotImplemented(obj)

put_single_series(obj, x, variable_name, identifier, dimension_id, start_time) ==
    NotImplemented(obj)

put_values(obj, x, variable_name) == NotImplemented(obj)

\* a setter that stores the time zone
set_time_zone_storing(obj, tzone_id) ==
    [ret |-> Return(PyNone), self |-> [obj EXCEPT !.time_zone = tzone_id]]

set_time_zone(obj, tzone_id) == NotImplemented(obj)

summary(obj) == NotImplemented(obj)

----------------------------------------------------------------------------
(* EftsDataSet.__init__.  A file holds a data set as it is stored: the time
   axis as numbers with the time standard as an attribute, the station names
   as arrays of bytes.  The conversions of the path branch are kept apart from
   the identity: a decoded time stamp is the stored number counted from the
   origin of the time units, a station name is the stored bytes without their
   padding. *)

TIME_STANDARD_ATTR_KEY == "time_standard"

\* the argument of __init__: a path (a str) or a data set
Path(path) == [is_str |-> TRUE, value |-> path]
Handle(dataset) == [is_str |-> FALSE, value |-> dataset]

\* the station names as stored, padded to the string length, and s.strip()
PaddedA == "a   "
PaddedB == "b   "
byte_array_to_string(x) ==
    CASE x = PaddedA -> "a"
      [] x = PaddedB -> "b"
      [] OTHER -> x
byte_stations_to_str(byte_names) ==
    [i \in 1..Len(byte_names) |-> byte_array_to_string(byte_names[i])]

\* CFDatetimeCoder.decode followed by cftimes_to_pdtstamps
cftimes_to_pdtstamps(values, origin, tz_str) ==
    [i \in 1..Len(values) |-> origin + values[i]]

\* xr.open_dataset(path, decode_times=False)
open_dataset(path, fs) ==
    IF path \in DOMAIN fs THEN Return(fs[path])
    ELSE Raise("FileNotFoundError", "No such file or directory", <<path>>)

\* the path branch of __init__, for the content x of the file
Decoded(obj, x) ==
    LET time_zone == x.time_attrs[TIME_STANDARD_ATTR_KEY]
        tz == IF obj.time_zone_timestamps THEN time_zone ELSE "None"
        time_coords ==
            Variable1D(TIME_DIMNAME,
                       cftimes_to_pdtstamps(x.data.variables[TIME_DIMNAME].values,
                                            x.time_attrs.origin, tz))
        station_names ==
            Variable1D(obj.STATION_DIMNAME,
                       byte_stations_to_str(x.data.variables[STATION_NAME_VARNAME].values))
    IN  [obj EXCEPT
            !.time_zone = time_zone,
            !.data = [x.data EXCEPT !.variables =
                        Updated(x.data.variables,
                                [n \in {TIME_DIMNAME, obj.STATION_DIMNAME} |->
                                    IF n = TIME_DIMNAME THEN time_coords ELSE station_names])]]

\* a constructor that decodes the times of whatever it is given
EftsDataSet_decoding(data, fs) ==
    LET obj == NewEftsDataSet(PyNone)
    IN  IF data.is_str
        THEN LET x == open_dataset(data.value, fs)
             IN  IF x.status = "error" THEN x ELSE Return(Decoded(obj, x.value))
        ELSE Return([obj EXCEPT !.data =
                [data.value EXCEPT !.variables[TIME_DIMNAME] =
                    Variable1D(TIME_DIMNAME,
                               cftimes_to_pdtstamps(data.value.variables[TIME_DIMNAME].values,
                                                    1, obj.time_zone))]])

EftsDataSet(data, fs) ==
    LET obj == NewEftsDataSet(PyNone)
    IN  IF data.is_str
        THEN LET x == open_dataset(data.value, fs)
             IN  IF x.status = "error" THEN x ELSE Return(Decoded(obj, x.value))
        ELSE Return([obj EXCEPT !.data = data.value])

----------------------------------------------------------------------------
(* The data sets and the files the wrapper is given *)

\* xr_efts with every optional argument left out
XrEftsOf(issue_times, station_ids, lead_times, ensemble_size) ==
    xr_efts(issue_times, station_ids, lead_times, ensemble_size,
            PyNone, PyNone, PyNone, PyNone, PyNone).value

\* data sets whose time stamps and station identifiers may repeat or be none
CoordinateDatasets ==
    {XrEftsOf(issue_times, station_ids, PyNone, 1) :
        issue_times \in SeqsUpTo({1, 2}, MaxLen), station_ids \in SeqsUpTo(StationIds, MaxLen)}

four_dims_names == <<LEAD_TIME_DIMNAME, STATION_DIMNAME, ENS_MEMBER_DIMNAME, TIME_DIMNAME>>

\* stations named a, b, a, ...
AlternatingIds(n) == [i \in 1..n |-> IF i % 2 = 1 THEN "a" ELSE "b"]

\* data sets of every shape, with the forecast variable rain_sim on the four axes
ForecastDatasets ==
    {LET d == XrEftsOf([i \in 1..n_time |-> i], AlternatingIds(n_stations),
                       Some([i \in 1..n_lead |-> i]), n_ens)
     IN  WithDataArray(d, "rain_sim",
            DataArray(four_dims_names, [k \in 1..4 |-> d.dims[four_dims_names[k]]])) :
        n_time \in 1..MaxLen, n_stations \in 1..MaxLen, n_lead \in 1..MaxLen,
        n_ens \in 1..MaxLen}

WrappedDatasets == CoordinateDatasets \cup ForecastDatasets

\* a file as written: times as numbers, station names as bytes
StoredFile ==
    LET d == XrEftsOf(<<1, 2>>, <<"a", "b">>, PyNone, 1)
    IN  [data |-> [d EXCEPT !.variables[STATION_NAME_VARNAME] =
                        Variable1D(STATION_DIMNAME, <<PaddedA, PaddedB>>)],
         time_attrs |-> [time_standard |-> "AEST", origin |-> 1]]

StoredPath == "stored.nc"
AbsentPath == "absent.nc"

StoredFiles == [path \in {StoredPath} |-> StoredFile]

InitWrapper ==
    /\ pc = "idle"
    /\ call = [op |-> "none"]
    /\ ret = [status |-> "none"]
    /\ self = NoObject
    /\ files = StoredFiles
    /\ opened = {}

\* the step of __init__ for one argument
Construct(data) ==
    LET r == EftsDataSet(data, files)
    IN  /\ call' = [op |-> "EftsDataSet", data |-> data]
        /\ ret' = IF r.status = "ok" THEN Return(PyNone) ELSE r
        /\ self' = IF r.status = "ok" THEN r.value ELSE self
        /\ pc' = IF r.status = "ok" THEN "ready" ELSE "done"
        /\ opened' = IF data.is_str /\ r.status = "ok"
                     THEN opened \cup {data.value} ELSE opened

EftsDataSetCall ==
    /\ pc = "idle"
    /\ \/ \E path \in {StoredPath, AbsentPath} : Construct(Path(path))
       \/ \E d \in WrappedDatasets : Construct(Handle(d))
    /\ UNCHANGED files

----------------------------------------------------------------------------
(* The calls of the methods of the EftsDataSet kept in self *)

\* an optional argument as the sequence of no value or of one value of S, and
\* the Python value it stands for
OptionalValue(S) == SeqsUpTo(S, 1)
Opt(s) == IF s = <<>> THEN PyNone ELSE Some(s[1])

Identifiers == OptionalValue(StationIds \cup {"z"})

DimensionIds ==
    OptionalValue({STATION_ID_VARNAME, STATION_NAME_VARNAME, ELEVATION_VARNAME, "rain_sim"})

\* time stamps asked for: those of the data sets, and 0 that none carries
DateTimes == 0..MaxLen

VariableNamesAsked == {"rain_sim", "rain_obs"}

IndexForIdentifierCall ==
    /\ pc = "ready"
    /\ \E identifier \in Identifiers, dimension_id \in DimensionIds :
          /\ call' = [op |-> "index_for_identifier", identifier |-> Opt(identifier),
                      dimension_id |-> Opt(dimension_id)]
          /\ ret' = index_for_identifier(self, Opt(identifier), Opt(dimension_id))
    /\ pc' = "returned"
    /\ UNCHANGED <<self, files, opened>>

IndexForTimeCall ==
    /\ pc = "ready"
    /\ \E dateTime \in DateTimes :
          /\ call' = [op |-> "index_for_time", dateTime |-> dateTime]
          /\ ret' = index_for_time(self, dateTime)
    /\ pc' = "returned"
    /\ UNCHANGED <<self, files, opened>>

GetEnsembleForecastsCall ==
    /\ pc = "ready"
    /\ \E variable_name \in VariableNamesAsked, identifier \in Identifiers,
          dimension_id \in OptionalValue({STATION_NAME_VARNAME}),
          start_time \in OptionalValue(DateTimes), lead_time_count \in OptionalValue(0..MaxLen) :
          /\ call' = [op |-> "get_ensemble_forecasts", variable_name |-> variable_name,
                      identifier |-> Opt(identifier), dimension_id |-> Opt(dimension_id),
                      start_time |-> Opt(start_time), lead_time_count |-> Opt(lead_time_count)]
          /\ ret' = get_ensemble_forecasts(self, variable_name, Opt(identifier), Opt(dimension_id),
                                           Opt(start_time), Opt(lead_time_count))
    /\ pc' = "returned"
    /\ UNCHANGED <<self, files, opened>>

\* the step of a method that returns the pair of its outcome and the object after it
Outcome(r) ==
    /\ ret' = r.ret
    /\ self' = r.self
    /\ pc' = "returned"
    /\ UNCHANGED <<files, opened>>

GetEnsembleForStationsCall ==
    /\ pc = "ready"
    /\ \E identifier \in Identifiers, lead_time_count \in OptionalValue({1}) :
          /\ call' = [op |-> "get_ensemble_for_stations", variable_name |-> "rain_sim",
                      identifier |-> Opt(identifier), dimension_id |-> ENS_MEMBER_DIMNAME,
                      start_time |-> PyNone, lead_time_count |-> Opt(lead_time_count)]
          /\ Outcome(get_ensemble_for_stations(self, "rain_sim", Opt(identifier),
                        ENS_MEMBER_DIMNAME, PyNone, Opt(lead_time_count)))

GetEnsembleForecastsForStationCall ==
    /\ pc = "ready"
    /\ \E identifier \in Identifiers, dimension_id \in OptionalValue({STATION_NAME_VARNAME}) :
          /\ call' = [op |-> "get_ensemble_forecasts_for_station", variable_name |-> "rain_sim",
                      identifier |-> Opt(identifier), dimension_id |-> Opt(dimension_id)]
          /\ Outcome(get_ensemble_forecasts_for_station(self, "rain_sim", Opt(identifier),
                        Opt(dimension_id)))

GetEnsembleSeriesCall ==
    /\ pc = "ready"
    /\ \E identifier \in Identifiers, dimension_id \in OptionalValue({STATION_NAME_VARNAME}) :
          /\ call' = [op |-> "get_ensemble_series", variable_name |-> "rain_ens",
                      identifier |-> Opt(identifier), dimension_id |-> Opt(dimension_id)]
          /\ Outcome(get_ensemble_series(self, "rain_ens", Opt(identifier), Opt(dimension_id)))

\* values handed to the put methods
ValuesPut == {<<>>, <<0>>}

PutEnsembleForecastsCall ==
    /\ pc = "ready"
    /\ \E x \in ValuesPut, identifier \in Identifiers, start_time \in OptionalValue({1}) :
          /\ call' = [op |-> "put_ensemble_forecasts", x |-> x, variable_name |-> "rain_sim",
                      identifier |-> Opt(identifier), dimension_id |-> PyNone,
                      start_time |-> Opt(start_time)]
          /\ Outcome(put_ensemble_forecasts(self, x, "rain_sim", Opt(identifier), PyNone,
                        Opt(start_time)))

PutEnsembleForecastsForStationCall ==
    /\ pc = "ready"
    /\ \E x \in ValuesPut, identifier \in Identifiers, start_time \in OptionalValue({1}) :
          /\ call' = [op |-> "put_ensemble_forecasts_for_station", x |-> x,
                      variable_name |-> "rain_sim", identifier |-> Opt(identifier),
                      dimension_id |-> ENS_MEMBER_DIMNAME, start_time |-> Opt(start_time)]
          /\ Outcome(put_ensemble_forecasts_for_station(self, x, "rain_sim", Opt(identifier),
                        ENS_MEMBER_DIMNAME, Opt(start_time)))

PutEnsembleSeriesCall ==
    /\ pc = "ready"
    /\ \E x \in ValuesPut, identifier \in Identifiers :
          /\ call' = [op |-> "put_ensemble_series", x |-> x, variable_name |-> "rain_ens",
                      identifier |-> Opt(identifier), dimension_id |-> PyNone]
          /\ Outcome(put_ensemble_series(self, x, "rain_ens", Opt(identifier), PyNone))

PutSingleSeriesCall ==
    /\ pc = "ready"
    /\ \E x \in ValuesPut, identifier \in Identifiers, start_time \in OptionalValue({1}) :
          /\ call' = [op |-> "put_single_series", x |-> x, variable_name |-> "rain_obs",
                      identifier |-> Opt(identifier), dimension_id |-> PyNone,
                      start_time |-> Opt(start_time)]
          /\ Outcome(put_single_series(self, x, "rain_obs", Opt(identifier), PyNone, Opt(start_time)))

PutValuesCall ==
    /\ pc = "ready"
    /\ \E x \in ValuesPut, variable_name \in {LAT_VARNAME, "rain_sim"} :
          /\ call' = [op |-> "put_values", x |-> x, variable_name |-> variable_name]
          /\ Outcome(put_values(self, x, variable_name))

SetTimeZoneCall ==
    /\ pc = "ready"
    /\ \E tzone_id \in {"UTC", "Australia/Sydney"} :
          /\ call' = [op |-> "set_time_zone", tzone_id |-> tzone_id]
          /\ Outcome(set_time_zone(self, tzone_id))

SummaryCall ==
    /\ pc = "ready"
    /\ call' = [op |-> "summary"]
    /\ Outcome(summary(self))

\* the ten accessors that are not implemented
NotImplementedAccessors ==
    {"get_ensemble_for_stations", "get_ensemble_forecasts_for_station", "get_ensemble_series",
     "put_ensemble_forecasts", "put_ensemble_forecasts_for_station", "put_ensemble_series",
     "put_single_series", "put_values", "set_time_zone", "summary"}

\* the caller takes the outcome of the method and goes on with the object
ReturnToCaller ==
    /\ pc = "returned"
    /\ pc' = "ready"
    /\ call' = [op |-> "none"]
    /\ ret' = [status |-> "none"]
    /\ UNCHANGED <<self, files, opened>>

NextWrapper ==
    \/ EftsDataSetCall
    \/ IndexForIdentifierCall
    \/ IndexForTimeCall
    \/ GetEnsembleForecastsCall
    \/ GetEnsembleForStationsCall
    \/ GetEnsembleForecastsForStationCall
    \/ GetEnsembleSeriesCall
    \/ PutEnsembleForecastsCall
    \/ PutEnsembleForecastsForStationCall
    \/ PutEnsembleSeriesCall
    \/ PutSingleSeriesCall
    \/ PutValuesCall
    \/ SetTimeZoneCall
    \/ SummaryCall
    \/ ReturnToCaller

SpecWrapper == InitWrapper /\ [][NextWrapper]_vars

----------------------------------------------------------------------------
(* Claims about the EftsDataSet wrapper *)

\* a method of the object has just been called
IsMethod(op) == pc = "returned" /\ call.op = op

\* the coordinate an identifier is looked up in, and its values
SearchedName == OrElse(call.dimension_id, STATION_ID_VARNAME)

SearchedIsCoordinate ==
    /\ SearchedName \in Range(conventional_varnames)
    /\ SearchedName \in DOMAIN self.data.variables

SearchedValues == self.data.variables[SearchedName].values

TimeValues == self.data.variables[TIME_DIMNAME].values

IdentifierAbsent ==
    /\ ~ call.identifier.is_none
    /\ SearchedIsCoordinate
    /\ call.identifier.value \notin Range(SearchedValues)

IdentifierPresent ==
    /\ ~ call.identifier.is_none
    /\ SearchedIsCoordinate
    /\ call.identifier.value \in Range(SearchedValues)

\* the start of the window is given, or can be taken from the time coordinate
HasStartTime == ~ call.start_time.is_none \/ Len(TimeValues) > 0

\* i is the smallest index, counted from 0, at which values holds x
IsSmallestIndex(i, values, x) ==
    /\ i \in 0..(Len(values) - 1)
    /\ values[i + 1] = x
    /\ \A j \in 1..i : values[j] # x

(* C14: index_for_identifier, called directly or through
   get_ensemble_forecasts, with an identifier that does not occur in the
   identifier coordinate fails with a not-found error whose message names
   the identifier and the dimension searched. *)
C14_LookupFailureNamesIdentifier ==
    (/\ IsMethod("index_for_identifier") \/ (IsMethod("get_ensemble_forecasts") /\ HasStartTime)
     /\ IdentifierAbsent) =>
        /\ ret.status = "error"
        /\ call.identifier.value \in Range(ret.listed)
        /\ SearchedName \in Range(ret.listed)

(* C15: when the identifier occurs in the coordinate values,
   index_for_identifier returns the smallest index at which the value equals
   it, index 0 and repeated values included; index_for_time does the same for
   a date-time of the time coordinate; index_for_identifier fails for the
   identifier None whatever the coordinate holds. *)
C15_IndexLookupResult ==
    /\ (IsMethod("index_for_identifier") /\ IdentifierPresent) =>
          /\ ret.status = "ok"
          /\ IsSmallestIndex(ret.value, SearchedValues, call.identifier.value)
    /\ (IsMethod("index_for_time") /\ call.dateTime \in Range(TimeValues)) =>
          /\ ret.status = "ok"
          /\ IsSmallestIndex(ret.value, TimeValues, call.dateTime)
    /\ (IsMethod("index_for_identifier") /\ call.identifier.is_none) =>
          ret.status = "error"

\* an identifier held twice, at indexes 0 and 1: index 0 is returned
C15_Witness ==
    /\ IsMethod("index_for_identifier")
    /\ call.dimension_id.is_none
    /\ call.identifier = Some("b")
    /\ SearchedValues = <<"b", "b">>
    /\ ret = Return(0)

(* C18: every call of one of the ten accessors that are not implemented
   signals NotImplementedError, whatever its arguments, and leaves the wrapped
   data set, every field of the wrapper and the files unchanged. *)
C18_UnimplementedAccessors ==
    [][(pc = "ready" /\ pc' = "returned" /\ call'.op \in NotImplementedAccessors) =>
        /\ ret'.status = "error"
        /\ ret'.class = "NotImplementedError"
        /\ self' = self
        /\ files' = files
        /\ opened' = opened]_vars

\* set_time_zone was asked for another time zone: refused, the field still UTC
C18_Witness ==
    /\ IsMethod("set_time_zone")
    /\ call.tzone_id = "Australia/Sydney"
    /\ ret.status = "error" /\ ret.class = "NotImplementedError"
    /\ self.time_zone = "UTC"

\* the cells of an array
CellsOf(a) == {a.values[idx] : idx \in DOMAIN a.values}

\* rain_sim is stored on the axes (lead_time, station, ens_member, time)
StoredOnFourAxes(variable_name) ==
    /\ variable_name \in DOMAIN self.data.variables
    /\ self.data.variables[variable_name].dims = four_dims_names

\* the index of the start of the window on the time axis
StartTimeFound ==
    IF call.start_time.is_none THEN Len(TimeValues) > 0
    ELSE call.start_time.value \in Range(TimeValues)

(* C19: for a variable stored on the axes (lead_time, station, ens_member,
   time), get_ensemble_forecasts returns the values at the station index of
   the identifier and at the time index of start_time, over the first
   lead_time_count lead times and every ensemble member; lead_time_count
   defaults to the size of the lead-time dimension and start_time to the
   first value of the time coordinate. *)
C19_EnsembleForecastExtraction ==
    (/\ IsMethod("get_ensemble_forecasts")
     /\ StoredOnFourAxes(call.variable_name)
     /\ IdentifierPresent
     /\ StartTimeFound) =>
        LET station_index == CHOOSE i \in 0..MaxLen :
                IsSmallestIndex(i, SearchedValues, call.identifier.value)
            start == IF call.start_time.is_none THEN TimeValues[1] ELSE call.start_time.value
            time_index == CHOOSE i \in 0..MaxLen : IsSmallestIndex(i, TimeValues, start)
            lead_time_count == Min(OrElse(call.lead_time_count, self.data.dims[LEAD_TIME_DIMNAME]),
                                   self.data.dims[LEAD_TIME_DIMNAME])
        IN  /\ ret.status = "ok"
            /\ CellsOf(ret.value) =
                  {<<l, station_index, e, time_index>> :
                      l \in 0..(lead_time_count - 1),
                      e \in 0..(self.data.dims[ENS_MEMBER_DIMNAME] - 1)}

(* C20: EftsDataSet(data) for a data set, not a path, opens no file, decodes
   no time and converts no station name: the data of the wrapper is the data
   set that was passed, and the time zone stays "UTC". *)
C20_ConstructionFromHandle ==
    [][(pc = "idle" /\ call'.op = "EftsDataSet" /\ ~ call'.data.is_str) =>
        /\ ret'.status = "ok"
        /\ self'.exists
        /\ self'.data = call'.data.value
        /\ self'.time_zone = "UTC"
        /\ opened' = opened
        /\ files' = files]_vars

\* a data set with two time stamps and two stations has been wrapped as it is
C20_Witness ==
    /\ pc = "ready" /\ call.op = "EftsDataSet" /\ ~ call.data.is_str
    /\ call.data.value.variables[TIME_DIMNAME].values = <<1, 2>>
    /\ call.data.value.variables[STATION_ID_VARNAME].values = <<"a", "b">>
    /\ self.data = call.data.value
    /\ self.time_zone = "UTC"
    /\ opened = {}

----------------------------------------------------------------------------
(* wrapper.py: create_efts *)

\* data_var_definitions: a mapping of definitions, or a pandas DataFrame
Mapping(defs) == [is_data_frame |-> FALSE, value |-> defs]
DataFrame(defs) == [is_data_frame |-> TRUE, value |-> defs]

\* xr.Dataset(data_vars=varDefs["datavars"], coords=varDefs["metadatavars"], attrs=...):
\* every variable is defined on the dimensions of _create_nc_dims, which give the sizes
CreatedDataset(varDefs, efts_dims) ==
    LET data_vars == varDefs.datavars
        coords == IF varDefs.metadatavars.is_none THEN EmptyDict
                  ELSE varDefs.metadatavars.value
        variables == Updated(data_vars, coords)
        dimnames == UNION {Range(variables[v].dims) : v \in DOMAIN variables}
        size(dim) == Len(efts_dims[CHOOSE k \in DOMAIN efts_dims : efts_dims[k][1] = dim][2])
    IN  [variables |-> variables,
         coords |-> DOMAIN coords,
         dims |-> [dim \in dimnames |-> size(dim)],
         attrs |-> [description |-> "TODO: put the right attributes"]]

\* create_efts without the test of the path
create_efts_overwriting(fname, time_dim_info, data_var_definitions, stations_ids, station_names, nc_attributes, optional_vars, lead_length, ensemble_length, fs) ==
    IF stations_ids.is_none
    THEN Raise("ValueError",
               "You must provide station identifiers when creating a new EFTS netCDF data set",
               <<>>)
    ELSE IF nc_attributes.is_none
    THEN Raise("ValueError", "You must provide a suitable list for nc_attributes, including",
               mandatory_global_attributes)
    ELSE IF data_var_definitions.is_data_frame
    THEN Raise("ValueError",
               "data_var_definitions should be a list of dictionaries, not a pandas DataFrame",
               <<>>)
    ELSE
    LET num_stations == Len(stations_ids.value)
        varDefs == create_efts_variables(data_var_definitions.value, time_dim_info,
                        num_stations, lead_length, ensemble_length, optional_vars)
    IN  IF varDefs.status = "error" THEN varDefs
        ELSE EftsDataSet(Handle(CreatedDataset(varDefs.value,
                            _create_nc_dims(time_dim_info, num_stations, lead_length,
                                            ensemble_length))), fs)

\* create_efts with the test of the path before the other tests
create_efts_path_first(fname, time_dim_info, data_var_definitions, stations_ids, station_names, nc_attributes, optional_vars, lead_length, ensemble_length, fs) ==
    IF fname \in DOMAIN fs
    THEN Raise("FileExistsError", "File already exists: ", <<fname>>)
    ELSE create_efts_overwriting(fname, time_dim_info, data_var_definitions, stations_ids,
                                 station_names, nc_attributes, optional_vars, lead_length,
                                 ensemble_length, fs)

create_efts(fname, time_dim_info, data_var_definitions, stations_ids, station_names, nc_attributes, optional_vars, lead_length, ensemble_length, fs) ==
    IF stations_ids.is_none
    THEN Raise("ValueError",
               "You must provide station identifiers when creating a new EFTS netCDF data set",
               <<>>)
    ELSE IF nc_attributes.is_none
    THEN Raise("ValueError", "You must provide a suitable list for nc_attributes, including",
               mandatory_global_attributes)
    \* os.path.exists(fname)
    ELSE IF fname \in DOMAIN fs
    THEN Raise("FileExistsError", "File already exists: ", <<fname>>)
    ELSE IF data_var_definitions.is_data_frame
    THEN Raise("ValueError",
               "data_var_definitions should be a list of dictionaries, not a pandas DataFrame",
               <<>>)
    ELSE
    LET num_stations == Len(stations_ids.value)
        varDefs == create_efts_variables(data_var_definitions.value, time_dim_info,
                        num_stations, lead_length, ensemble_length, optional_vars)
    IN  IF varDefs.status = "error" THEN varDefs
        ELSE EftsDataSet(Handle(CreatedDataset(varDefs.value,
                            _create_nc_dims(time_dim_info, num_stations, lead_length,
                                            ensemble_length))), fs)

\* the definitions given to create_efts: none or one, of any code
CreateDataVarDefs == {defs \in DataVarDefs : Len(defs) <= 1}

CreateEftsCall ==
    /\ pc = "idle"
    /\ \E fname \in {StoredPath, AbsentPath},
          n_time \in 1..MaxLen, lead_length \in 1..MaxLen, ensemble_length \in 1..MaxLen,
          defs \in CreateDataVarDefs, is_data_frame \in BOOLEAN,
          stations_ids \in Optional({[i \in 1..n |-> i] : n \in 1..MaxLen}),
          nc_attributes \in Optional(AttributeDicts),
          optional_vars \in {PyNone, Some(default_optional_variable_definitions_v2_0)} :
          LET time_dim_info == [units |-> "days since", values |-> [i \in 1..n_time |-> i]]
              data_var_definitions == IF is_data_frame THEN DataFrame(defs) ELSE Mapping(defs)
              r == create_efts(fname, time_dim_info, data_var_definitions, stations_ids,
                               PyNone, nc_attributes, optional_vars, lead_length,
                               ensemble_length, files)
          IN  /\ call' = [op |-> "create_efts", fname |-> fname,
                          time_dim_info |-> time_dim_info,
                          data_var_definitions |-> data_var_definitions,
                          stations_ids |-> stations_ids, station_names |-> PyNone,
                          nc_attributes |-> nc_attributes, optional_vars |-> optional_vars,
                          lead_length |-> lead_length, ensemble_length |-> ensemble_length]
              /\ ret' = IF r.status = "ok" THEN Return(r.value) ELSE r
              \* the object returned is the one the caller goes on with
              /\ self' = IF r.status = "ok" THEN r.value ELSE self
    /\ pc' = "done"
    /\ UNCHANGED <<files, opened>>

\* the caller makes the same call once more
CreateEftsAgainCall ==
    /\ pc = "done"
    /\ call.op = "create_efts"
    /\ LET r == create_efts(call.fname, call.time_dim_info, call.data_var_definitions,
                            call.stations_ids, call.station_names, call.nc_attributes,
                            call.optional_vars, call.lead_length, call.ensemble_length, files)
       IN  /\ ret' = IF r.status = "ok" THEN Return(r.value) ELSE r
           /\ self' = IF r.status = "ok" THEN r.value ELSE self
    /\ pc' = "done again"
    /\ UNCHANGED <<call, files, opened>>

NextCreate ==
    \/ CreateEftsCall
    \/ CreateEftsAgainCall

SpecCreate == InitWrapper /\ [][NextCreate]_vars

----------------------------------------------------------------------------
(* Claims about create_efts *)

IsCreateEfts == pc = "done" /\ call.op = "create_efts"

\* the arguments the checks before the path look at are there
IdentifiersAndAttributesGiven ==
    ~ call.stations_ids.is_none /\ ~ call.nc_attributes.is_none

\* create_efts failed: an error, no object, the files as they were
CreationFailed ==
    /\ ret.status = "error"
    /\ self = NoObject
    /\ files = StoredFiles

(* C16, as stated: create_efts called with a path that already exists fails
   with a file-exists error and leaves the existing file unmodified. *)
C16_Original_FileExistsError ==
    (IsCreateEfts /\ call.fname \in DOMAIN StoredFiles) =>
        CreationFailed /\ ret.class = "FileExistsError"

(* C16: create_efts called with a path that already exists fails and leaves
   the existing file unmodified; with station identifiers and nc_attributes
   given the error is the file-exists error, raised before any variable is
   built, so also for definitions that create_efts_variables rejects. *)
C16_RefuseToOverwrite ==
    (IsCreateEfts /\ call.fname \in DOMAIN StoredFiles) =>
        /\ CreationFailed
        /\ IdentifiersAndAttributesGiven => ret.class = "FileExistsError"

\* the path exists and the definition has a code that create_efts_variables
\* rejects: the error is the one of the path
C16_Witness ==
    /\ IsCreateEfts
    /\ call.fname = StoredPath
    /\ IdentifiersAndAttributesGiven
    /\ ~ call.data_var_definitions.is_data_frame
    /\ Len(call.data_var_definitions.value) = 1
    /\ call.data_var_definitions.value[1].dim_type = "5"
    /\ ret.class = "FileExistsError"
    /\ files = StoredFiles

\* nc_attributes is given without one of the mandatory global attributes
LacksMandatoryAttribute ==
    /\ ~ call.nc_attributes.is_none
    /\ ~ (Range(mandatory_global_attributes) \subseteq DOMAIN call.nc_attributes.value)

(* C17: create_efts fails when nc_attributes lacks a mandatory global
   attribute, when the station identifiers are absent, or when the variable
   definitions are a data frame; a failed creation returns no data set. *)
C17_CreationPreconditions ==
    (/\ IsCreateEfts
     /\ \/ LacksMandatoryAttribute
        \/ call.stations_ids.is_none
        \/ call.data_var_definitions.is_data_frame) =>
        CreationFailed

----------------------------------------------------------------------------
(* wrapper.py: the methods of EftsDataSet that read sizes, write the data set
   to a file, or change the data set *)

\* the body is an expression without return: the method returns None
get_station_count(obj) == PyNone

\* self.data.to_netcdf(path): the file at path holds the data set
Written(obj) == [data |-> obj.data]

\* to_netcdf that writes whatever the version is
to_netcdf_any_version(obj, path, version, fs) ==
    [ret |-> Return(PyNone), files |-> Updated(fs, [p \in {path} |-> Written(obj)])]

\* the outcome of to_netcdf and the files after it
to_netcdf(obj, path, version, fs) ==
    IF version # "2.0"
    THEN [ret |-> Raise("ValueError", "Only version 2.0 is supported for now", <<>>),
          files |-> fs]
    ELSE [ret |-> Return(PyNone), files |-> Updated(fs, [p \in {path} |-> Written(obj)])]

three_dims_names == <<STATION_DIMNAME, ENS_MEMBER_DIMNAME, TIME_DIMNAME>>
two_dims_names == <<STATION_DIMNAME, TIME_DIMNAME>>

\* np.nan in a cell of an array of several dimensions, where a cell that was
\* written holds a tuple of indexes
NaN == <<>>

\* xr.DataArray(data=nan_full(dims_shape), dims=dims_names)
NanDataArray(dims_names, dims_shape) ==
    [dims |-> dims_names, shape |-> dims_shape,
     values |-> [idx \in Indexes(dims_shape) |-> NaN]]

\* xr.DataArray(..., coords=self.data.coords, dims=dims_names) refuses a
\* coordinate that lies along a dimension the array does not have
CoordsFit(d, dims_names) ==
    \A c \in d.coords : Range(d.variables[c].dims) \subseteq Range(dims_names)

\* the loop over the definitions of one code: each assigns a variable of its
\* name, and the first array that cannot be built ends the call with what was
\* assigned before
RECURSIVE AssignEach(_, _, _, _)
AssignEach(r, vardefs, dims_shape, dims_names) ==
    IF r.ret.status = "error" \/ vardefs = <<>> THEN r
    ELSE IF ~ CoordsFit(r.self.data, dims_names)
    THEN [r EXCEPT !.ret = Raise("ValueError",
              "coordinate has dimensions that are not a subset of the DataArray dimensions",
              dims_names)]
    ELSE AssignEach([r EXCEPT !.self.data = WithDataArray(r.self.data, Head(vardefs).name,
                                                NanDataArray(dims_names, dims_shape))],
                    Tail(vardefs), dims_shape, dims_names)

\* create_data_variables that builds the arrays of every code on the four axes
create_data_variables_four_axes(obj, data_var_def) ==
    LET four_dims_shape == [k \in 1..4 |-> obj.data.dims[four_dims_names[k]]]
        used == SelectSeq(data_var_def, LAMBDA x : x.dim_type \in {"4", "3", "2"})
    IN  AssignEach([ret |-> Return(PyNone), self |-> obj], used, four_dims_shape,
                   four_dims_names)

\* the outcome of create_data_variables and the object after it; of a
\* definition the name and the code are kept
create_data_variables(obj, data_var_def) ==
    IF ~ (Range(four_dims_names) \subseteq DOMAIN obj.data.dims)
    THEN [ret |-> Raise("KeyError", "", <<>>), self |-> obj]
    ELSE
    LET four_dims_shape == [k \in 1..4 |-> obj.data.dims[four_dims_names[k]]]
        three_dims_shape == [k \in 1..3 |-> obj.data.dims[three_dims_names[k]]]
        two_dims_shape == [k \in 1..2 |-> obj.data.dims[two_dims_names[k]]]
        after4 == AssignEach([ret |-> Return(PyNone), self |-> obj],
                             ens_fcast_data_var_def(data_var_def),
                             four_dims_shape, four_dims_names)
        after3 == AssignEach(after4, ens_data_var_def(data_var_def),
                             three_dims_shape, three_dims_names)
    IN  AssignEach(after3, point_data_var_def(data_var_def), two_dims_shape, two_dims_names)

\* self.data[self.LEAD_TIME_DIMNAME].values = values, where the values of a
\* dimension coordinate cannot be assigned
put_lead_time_values_refused(obj, values) ==
    [ret |-> Raise("ValueError",
                   "Cannot assign to the .values attribute of dimension coordinate", <<>>),
     self |-> obj]

\* put_lead_time_values that takes values of any length
put_lead_time_values_resizing(obj, values) ==
    [ret |-> Return(PyNone),
     self |-> [obj EXCEPT !.data.variables[obj.LEAD_TIME_DIMNAME] =
                              Variable1D(obj.LEAD_TIME_DIMNAME, values),
                          !.data.dims[obj.LEAD_TIME_DIMNAME] = Len(values)]]

\* self.data[self.LEAD_TIME_DIMNAME].values = values, where the values of a
\* variable can be replaced by values of the same shape
put_lead_time_values(obj, values) ==
    IF obj.LEAD_TIME_DIMNAME \notin DOMAIN obj.data.variables
    THEN [ret |-> Raise("KeyError", "No variable named", <<obj.LEAD_TIME_DIMNAME>>),
          self |-> obj]
    ELSE IF Len(values) # obj.data.variables[obj.LEAD_TIME_DIMNAME].shape[1]
    THEN [ret |-> Raise("ValueError", "replacement data must match the Variable's shape",
                        <<>>),
          self |-> obj]
    ELSE [ret |-> Return(PyNone),
          self |-> [obj EXCEPT !.data.variables[obj.LEAD_TIME_DIMNAME].values = values]]

----------------------------------------------------------------------------
(* The calls of these methods *)

GetStationCountCall ==
    /\ pc = "ready"
    /\ call' = [op |-> "get_station_count"]
    /\ ret' = Return(get_station_count(self))
    /\ pc' = "returned"
    /\ UNCHANGED <<self, files, opened>>

GetEnsembleSizeCall ==
    /\ pc = "ready"
    /\ call' = [op |-> "get_ensemble_size"]
    /\ ret' = Return(Some(get_ensemble_size(self)))
    /\ pc' = "returned"
    /\ UNCHANGED <<self, files, opened>>

GetLeadTimeCountCall ==
    /\ pc = "ready"
    /\ call' = [op |-> "get_lead_time_count"]
    /\ ret' = Return(Some(get_lead_time_count(self)))
    /\ pc' = "returned"
    /\ UNCHANGED <<self, files, opened>>

\* names asked of _get_values: coordinates, a conventional name no data set
\* has, data variables
ValueNamesAsked ==
    {STATION_ID_VARNAME, TIME_DIMNAME, LAT_VARNAME, ELEVATION_VARNAME, "rain_sim", "rain_obs"}

GetValuesCall ==
    /\ pc = "ready"
    /\ \E variable_name \in ValueNamesAsked :
          /\ call' = [op |-> "_get_values", variable_name |-> variable_name]
          /\ ret' = _get_values(self, variable_name)
    /\ pc' = "returned"
    /\ UNCHANGED <<self, files, opened>>

\* the definitions given to create_data_variables: up to two, of any name and code
OperationDataVarDefs == {defs \in DataVarDefs : Len(defs) <= 2}

CreateDataVariablesCall ==
    /\ pc = "ready"
    /\ \E data_var_def \in OperationDataVarDefs :
          /\ call' = [op |-> "create_data_variables", data_var_def |-> data_var_def]
          /\ Outcome(create_data_variables(self, data_var_def))

\* lead times put: as many as the dimension has, or not
LeadTimesPut == {[i \in 1..n |-> 0] : n \in 1..MaxLen}

\* the library either refuses to assign the values of a dimension coordinate
\* or replaces values of the same shape
PutLeadTimeValuesCall ==
    /\ pc = "ready"
    /\ \E values \in LeadTimesPut :
          /\ call' = [op |-> "put_lead_time_values", values |-> values]
          /\ \/ Outcome(put_lead_time_values(self, values))
             \/ Outcome(put_lead_time_values_refused(self, values))

Versions == {"2.0", "1.0", "2"}

ToNetcdfCall ==
    /\ pc = "ready"
    /\ \E path \in {StoredPath, AbsentPath}, version \in Versions :
          LET r == to_netcdf(self, path, version, files)
          IN  /\ call' = [op |-> "to_netcdf", path |-> path, version |-> version]
              /\ ret' = r.ret
              /\ files' = r.files
    /\ pc' = "returned"
    /\ UNCHANGED <<self, opened>>

\* the data sets the operations are followed on: a forecast variable, every
\* number of time stamps and of lead times
OperatedDatasets ==
    {d \in ForecastDatasets :
        d.dims[STATION_DIMNAME] = MaxLen /\ d.dims[ENS_MEMBER_DIMNAME] = 1}

WrapCall ==
    /\ pc = "idle"
    /\ \/ Construct(Path(StoredPath))
       \/ \E d \in OperatedDatasets : Construct(Handle(d))
    /\ UNCHANGED files

NextOperations ==
    \/ WrapCall
    \/ GetStationCountCall
    \/ GetEnsembleSizeCall
    \/ GetLeadTimeCountCall
    \/ GetValuesCall
    \/ CreateDataVariablesCall
    \/ PutLeadTimeValuesCall
    \/ IndexForIdentifierCall
    \/ IndexForTimeCall
    \/ GetEnsembleForecastsCall
    \/ GetEnsembleForStationsCall
    \/ GetEnsembleForecastsForStationCall
    \/ GetEnsembleSeriesCall
    \/ PutEnsembleForecastsCall
    \/ PutEnsembleForecastsForStationCall
    \/ PutEnsembleSeriesCall
    \/ PutSingleSeriesCall
    \/ PutValuesCall
    \/ SetTimeZoneCall
    \/ SummaryCall
    \/ ReturnToCaller

SpecOperations == InitWrapper /\ [][NextOperations]_vars

NextNetcdf ==
    \/ EftsDataSetCall
    \/ ToNetcdfCall
    \/ ReturnToCaller

SpecNetcdf == InitWrapper /\ [][NextNetcdf]_vars

\* sizes of the four dimensions and of every variable along them agree
SizesConsistent ==
    self.exists =>
        \A v \in DOMAIN self.data.variables :
            \A k \in 1..Len(self.data.variables[v].dims) :
                self.data.variables[v].shape[k] = self.data.dims[self.data.variables[v].dims[k]]

----------------------------------------------------------------------------
(* Claims about the sizes and the values read from an EftsDataSet *)

(* C21: get_station_count returns the number of stations of the data set,
   the size of the station dimension. *)
C21_StationCount ==
    IsMethod("get_station_count") =>
        /\ ret.status = "ok"
        /\ ~ ret.value.is_none
        /\ ret.value.value = self.data.dims[self.STATION_DIMNAME]

\* a step of the method op
Calls(op) == pc = "ready" /\ pc' = "returned" /\ call'.op = op

(* C22: _get_values raises a ValueError for every name that is not in
   conventional_varnames, such as the name of a forecast variable, and so does
   index_for_identifier asked to search such a name; for a conventional name
   that the data set has it returns the stored values; the object is the same
   after the call. *)
C22_ValuesOfConventionalNamesOnly ==
    [][/\ Calls("_get_values") =>
            /\ self' = self
            /\ call'.variable_name \notin Range(conventional_varnames) =>
                    ret'.status = "error" /\ ret'.class = "ValueError"
            /\ (/\ call'.variable_name \in Range(conventional_varnames)
                /\ call'.variable_name \in DOMAIN self.data.variables) =>
                    /\ ret'.status = "ok"
                    /\ ret'.value = self.data.variables[call'.variable_name].values
       /\ (/\ Calls("index_for_identifier")
           /\ ~ call'.dimension_id.is_none
           /\ call'.dimension_id.value \notin Range(conventional_varnames)) =>
            /\ self' = self
            /\ ret'.status = "error" /\ ret'.class = "ValueError"]_vars

\* the forecast variable of the data set was asked for and refused, and the
\* variable is still there
C22_Witness ==
    /\ IsMethod("_get_values")
    /\ call.variable_name = "rain_sim"
    /\ "rain_sim" \in DOMAIN self.data.variables
    /\ "rain_sim" \notin self.data.coords
    /\ ret.status = "error" /\ ret.class = "ValueError"

----------------------------------------------------------------------------
(* Claims about the names of the axes of an array *)

IsSetDimNames == pc = "done" /\ call.op = "set_dim_names"

(* C23: an array returned by reduce_dimensions, and an array returned by the
   dim_names setter, carries pairwise distinct axis names, as many as it has
   axes; the setter fails for names of another length than the rank and for
   names with a repeat, and otherwise sets the names it was given. *)
C23_NamedArrayInvariant ==
    /\ (IsReduce /\ ret.status = "ok") => WellNamed(ret.value)
    /\ IsSetDimNames =>
        /\ ret.status = "ok" <=>
              (Len(call.value) = Len(call.x.dim) /\ IsInjective(call.value))
        /\ ret.status = "ok" =>
              /\ WellNamed(ret.value)
              /\ ret.value.dim_names.names = call.value
              /\ ret.value.dim = call.x.dim

\* reduce_dimensions returned an array of two named axes
C23_Witness ==
    /\ IsReduce
    /\ ret.status = "ok"
    /\ Len(ret.value.dim) = 2
    /\ Len(ret.value.dim_names.names) = 2
    /\ ret.value.dim_names.names[1] # ret.value.dim_names.names[2]

----------------------------------------------------------------------------
(* Claims about the data set create_efts returns and the files it leaves *)

\* nc_attributes has every mandatory global attribute
HasMandatoryAttributes ==
    /\ ~ call.nc_attributes.is_none
    /\ Range(mandatory_global_attributes) \subseteq DOMAIN call.nc_attributes.value

(* C24: the data set returned by a successful create_efts has the supplied
   nc_attributes as its global attributes, and passes
   has_required_global_attributes when nc_attributes has every mandatory
   attribute. *)
C24_CreatedGlobalAttributes ==
    (IsCreateEfts /\ ret.status = "ok") =>
        /\ self.data.attrs = call.nc_attributes.value
        /\ HasMandatoryAttributes => has_required_global_attributes(self.data)

\* create_efts has returned, the first or the second time
CreateEftsReturned == call.op = "create_efts" /\ pc \in {"done", "done again"}

\* the error of the first check that fails, in the order of the checks
FirstFailingCheck ==
    IF call.stations_ids.is_none
    THEN ret.status = "error" /\ ret.class = "ValueError"
            /\ ret.message = "You must provide station identifiers when creating a new EFTS netCDF data set"
    ELSE IF call.nc_attributes.is_none
    THEN ret.status = "error" /\ ret.class = "ValueError"
            /\ ret.message = "You must provide a suitable list for nc_attributes, including"
    ELSE IF call.fname \in DOMAIN StoredFiles
    THEN ret.status = "error" /\ ret.class = "FileExistsError"
    ELSE IF call.data_var_definitions.is_data_frame
    THEN ret.status = "error" /\ ret.class = "ValueError"
            /\ ret.message = "data_var_definitions should be a list of dictionaries, not a pandas DataFrame"
    ELSE TRUE

(* C29: the checks of create_efts run in the order station identifiers
   absent, nc_attributes absent, path exists, definitions are a data frame,
   and the first that fails gives the error; no call creates or changes a
   file, so after a successful call the path still does not exist, there is a
   wrapped data set in memory, and the same call made again succeeds with the
   same result. *)
C29_CreateTouchesNoFile ==
    /\ [](CreateEftsReturned =>
            /\ FirstFailingCheck
            /\ files = StoredFiles
            /\ opened = {}
            /\ ret.status = "ok" =>
                  /\ call.fname \notin DOMAIN files
                  /\ self.exists
                  /\ ret.value = self)
    /\ [][(pc = "done" /\ pc' = "done again" /\ ret.status = "ok") =>
            ret'.status = "ok" /\ ret' = ret]_vars

\* a call for a path that does not exist has succeeded twice
C29_Witness ==
    /\ pc = "done again"
    /\ call.op = "create_efts"
    /\ call.fname = AbsentPath
    /\ ret.status = "ok"
    /\ self.exists
    /\ AbsentPath \notin DOMAIN files

----------------------------------------------------------------------------
(* Claims about to_netcdf *)

(* C25: to_netcdf(path, version) raises a ValueError for every version other
   than "2.0" and then no file is created or changed; for version "2.0" the
   file at path holds the wrapped data set afterwards and the other files are
   as they were; the object is the same after the call in both cases. *)
C25_ToNetcdfVersionGuard ==
    [][Calls("to_netcdf") =>
        /\ self' = self
        /\ opened' = opened
        /\ IF call'.version # "2.0"
           THEN /\ ret'.status = "error" /\ ret'.class = "ValueError"
                /\ files' = files
           ELSE /\ ret'.status = "ok"
                /\ call'.path \in DOMAIN files'
                /\ files'[call'.path].data = self.data
                /\ DOMAIN files' = DOMAIN files \cup {call'.path}
                /\ \A p \in DOMAIN files : p # call'.path => files'[p] = files[p]]_vars

\* version "1.0" was refused for a path that does not exist, and still does not
C25_Witness ==
    /\ IsMethod("to_netcdf")
    /\ call.version = "1.0"
    /\ call.path = AbsentPath
    /\ ret.status = "error" /\ ret.class = "ValueError"
    /\ files = StoredFiles

----------------------------------------------------------------------------
(* Claims about the default global attributes *)

IsStf2Attributes == pc = "done" /\ call.op = "stf2_mandatory_global_attributes"

(* C26: whatever its arguments, stf2_mandatory_global_attributes returns a
   mapping whose keys are exactly the eight of mandatory_global_attributes,
   with STF_convention_version "2.0", STF_nc_spec the URL of the convention
   and each argument under its key; xr_efts given nc_attributes that is not
   empty uses it as the attributes as it is, adding no key. *)
C26_DefaultGlobalAttributes ==
    /\ IsStf2Attributes =>
        /\ DOMAIN ret.value = Range(mandatory_global_attributes)
        /\ Cardinality(DOMAIN ret.value) = 8
        /\ ret.value[STF_CONVENTION_VERSION_ATTR_KEY] = "2.0"
        /\ ret.value[STF_NC_SPEC_ATTR_KEY] = STF_2_0_URL
        /\ ret.value[TITLE_ATTR_KEY] = call.title
        /\ ret.value[INSTITUTION_ATTR_KEY] = call.institution
        /\ ret.value[CATCHMENT_ATTR_KEY] = call.catchment
        /\ ret.value[SOURCE_ATTR_KEY] = call.source
        /\ ret.value[COMMENT_ATTR_KEY] = call.comment
        /\ ret.value[HISTORY_ATTR_KEY] = call.history
    /\ (/\ IsXrEfts
        /\ ret.status = "ok"
        /\ ~ call.nc_attributes.is_none
        /\ DOMAIN call.nc_attributes.value # {}) =>
            ret.value.attrs = call.nc_attributes.value

\* the function was called with a title and a history of the caller
C26_Witness ==
    /\ IsStf2Attributes
    /\ call.title = "t" /\ call.history = ""
    /\ ret.value[TITLE_ATTR_KEY] = "t"
    /\ ret.value[HISTORY_ATTR_KEY] = ""
    /\ ret.value[STF_CONVENTION_VERSION_ATTR_KEY] = "2.0"
    /\ DOMAIN ret.value = Range(mandatory_global_attributes)

----------------------------------------------------------------------------
(* Claims about the operations that change an EftsDataSet *)

(* C27: no operation on an EftsDataSet, failed or not, changes the sizes of
   the time, station, lead_time and ens_member dimensions of its data set,
   and every variable keeps the sizes of its dimensions. *)
C27_DimensionSizesInvariant ==
    [][self.exists =>
        /\ self'.exists
        /\ \A d \in Range(four_dims_names) :
              /\ d \in DOMAIN self'.data.dims
              /\ self'.data.dims[d] = self.data.dims[d]
        /\ SizesConsistent']_vars

\* lead times were put into a data set that create_data_variables had added a
\* variable to
C27_Witness ==
    /\ IsMethod("put_lead_time_values")
    /\ ret.status = "ok"
    /\ "rain_obs" \in DOMAIN self.data.variables
    /\ self.data.variables[LEAD_TIME_DIMNAME].values = call.values
    /\ self.data.dims[LEAD_TIME_DIMNAME] = MaxLen
    /\ self.data.dims[TIME_DIMNAME] = 1

\* the definitions of a call whose code has axes
UsedDefinitions(data_var_def) ==
    {i \in 1..Len(data_var_def) : data_var_def[i].dim_type \in {"4", "3", "2"}}

(* C28: create_data_variables adds or overwrites, for each definition of
   code "4", "3" or "2", one variable of the name of the definition, on the
   axes of its code, of the sizes the data set has for these axes, every
   value missing; definitions of another code are passed over without error;
   the variables of other names are unchanged. *)
C28_CreateDataVariables ==
    [][Calls("create_data_variables") =>
        LET defs == call'.data_var_def
            used == UsedDefinitions(defs)
            names == {defs[i].name : i \in used}
        IN  /\ ret'.status = "ok"
            /\ DOMAIN self'.data.variables = DOMAIN self.data.variables \cup names
            /\ \A i \in used :
                  LET axes == AxesOfCode(defs[i].dim_type)
                  IN  self'.data.variables[defs[i].name] =
                        NanDataArray(axes, [k \in 1..Len(axes) |-> self.data.dims[axes[k]]])
            /\ \A n \in DOMAIN self.data.variables \ names :
                  self'.data.variables[n] = self.data.variables[n]]_vars

\* what does hold: definitions of code "4" alone, or of no code with axes
FourAxesOnly ==
    [][(/\ Calls("create_data_variables")
        /\ \A i \in UsedDefinitions(call'.data_var_def) :
              call'.data_var_def[i].dim_type = "4") =>
        /\ ret'.status = "ok"
        /\ \A i \in UsedDefinitions(call'.data_var_def) :
              self'.data.variables[call'.data_var_def[i].name] =
                  NanDataArray(four_dims_names,
                               [k \in 1..4 |-> self.data.dims[four_dims_names[k]]])
        /\ \A n \in DOMAIN self.data.variables :
              n \notin {call'.data_var_def[i].name : i \in UsedDefinitions(call'.data_var_def)}
                  => self'.data.variables[n] = self.data.variables[n]]_vars

=============================================================================
